---------------------------- MODULE Spec2Model ----------------------------
(***************************************************************************)
(* A model of the flexbox layout engine of React/CSSLayout/CSSLayout.c.    *)
(*                                                                         *)
(* The program's memory is one record per field of CSSNode, indexed by     *)
(* node.  Every function of the source is an operator of the same name     *)
(* that takes the memory ("w") and returns the memory it leaves behind;    *)
(* the actions of the specifications apply the public functions to the     *)
(* variables.                                                              *)
(*                                                                         *)
(* Floats are integers plus three values of their own: CSSUndefined (NaN), *)
(* PosInf and NegInf.  The operators F... follow IEEE arithmetic on them;  *)
(* a quotient of two finite values is truncated (fixed point, unit 1).     *)
(*                                                                         *)
(* heap is the allocator behind CSSNodeNew and CSSNodeFree: the nodes that *)
(* are allocated, and how many calloc and free calls were made.  probe     *)
(* records the last public call and what the layout pass did during it.    *)
(***************************************************************************)
EXTENDS Integers, Sequences, FiniteSets, TLC

VARIABLES parent, children, style, layout, lineIndex, hasNewLayout, isTextNode, isDirty, nextChild, measure, gCurrentGenerationCount, gDepth, gNodeInstanceCount, heap, probe, ops

vars == <<parent, children, style, layout, lineIndex, hasNewLayout, isTextNode, isDirty, nextChild, measure, gCurrentGenerationCount, gDepth, gNodeInstanceCount, heap, probe, ops>>

(***************************************************************************)
(* Bounds of the model.                                                    *)
(***************************************************************************)
NumNodes == 3

MaxOps == 3

TreeOps == 2

SceneNodes == 5

Node == 1 .. NumNodes

NULL == 0

\* The call stack of layoutNodeInternal is cut at this depth (gDepth): a tree
\* of NumNodes nodes never nests deeper than NumNodes calls.
MaxDepth == NumNodes

(***************************************************************************)
(* Floats.                                                                 *)
(***************************************************************************)
CSSUndefined == 999999

PosInf == 500000

NegInf == -500000

CSSValueIsUndefined(value) == value = CSSUndefined

IsInf(a) == a = PosInf \/ a = NegInf

Sign(a) == IF a < 0 THEN -1 ELSE IF a > 0 THEN 1 ELSE 0

FNeg(a) == IF a = CSSUndefined THEN CSSUndefined ELSE 0 - a

FAdd(a, b) == IF a = CSSUndefined \/ b = CSSUndefined THEN CSSUndefined ELSE IF IsInf(a) THEN (IF IsInf(b) /\ a # b THEN CSSUndefined ELSE a) ELSE IF IsInf(b) THEN b ELSE a + b

FSub(a, b) == FAdd(a, FNeg(b))

FMul(a, b) == IF a = CSSUndefined \/ b = CSSUndefined THEN CSSUndefined ELSE IF IsInf(a) \/ IsInf(b) THEN (IF a = 0 \/ b = 0 THEN CSSUndefined ELSE IF Sign(a) * Sign(b) > 0 THEN PosInf ELSE NegInf) ELSE a * b

\* The quotient of two finite values, truncated towards zero.
TruncDiv(a, b) == Sign(a) * Sign(b) * ((Sign(a) * a) \div (Sign(b) * b))

IsFinite(a) == a # CSSUndefined /\ ~IsInf(a)

FDiv(a, b) == IF a = CSSUndefined \/ b = CSSUndefined THEN CSSUndefined ELSE IF IsInf(a) THEN (IF IsInf(b) THEN CSSUndefined ELSE IF (b >= 0) = (a > 0) THEN PosInf ELSE NegInf) ELSE IF IsInf(b) THEN 0 ELSE IF b = 0 THEN (IF a = 0 THEN CSSUndefined ELSE IF a > 0 THEN PosInf ELSE NegInf) ELSE TruncDiv(a, b)

\* a / b * k: the quotient is scaled before it is rounded, as a float would
\* keep its fraction.
FScale(a, b, k) == IF IsFinite(a) /\ IsFinite(b) /\ IsFinite(k) /\ b # 0 THEN TruncDiv(a * k, b) ELSE FMul(FDiv(a, b), k)

\* The comparisons of C: each is false when an operand is NaN, but != is true.
FLt(a, b) == a # CSSUndefined /\ b # CSSUndefined /\ a < b

FLe(a, b) == a # CSSUndefined /\ b # CSSUndefined /\ a <= b

FGt(a, b) == FLt(b, a)

FGe(a, b) == FLe(b, a)

FEqual(a, b) == a # CSSUndefined /\ b # CSSUndefined /\ a = b

FNotEqual(a, b) == ~FEqual(a, b)

fmaxf(a, b) == IF a = CSSUndefined THEN b ELSE IF b = CSSUndefined THEN a ELSE IF a > b THEN a ELSE b

fminf(a, b) == IF a = CSSUndefined THEN b ELSE IF b = CSSUndefined THEN a ELSE IF a < b THEN a ELSE b

\* fabs(a - b) < 0.0001 on whole numbers: the difference is 0 (Inf - Inf is NaN).
eq(a, b) == IF CSSValueIsUndefined(a) THEN CSSValueIsUndefined(b) ELSE FSub(a, b) = 0

(***************************************************************************)
(* Enumerations and the tables indexed by them.                            *)
(***************************************************************************)
CSSEdge == {"Left", "Top", "Right", "Bottom", "Start", "End", "Horizontal", "Vertical", "All"}

CSSDimension == {"Width", "Height"}

CSSDirection == {"Inherit", "LTR", "RTL"}

CSSFlexDirection == {"Column", "ColumnReverse", "Row", "RowReverse"}

CSSJustify == {"FlexStart", "Center", "FlexEnd", "SpaceBetween", "SpaceAround"}

CSSAlign == {"Auto", "FlexStart", "Center", "FlexEnd", "Stretch"}

CSSPositionType == {"Relative", "Absolute"}

CSSWrapType == {"NoWrap", "Wrap"}

CSSOverflow == {"Visible", "Hidden", "Scroll"}

CSSMeasureMode == {"Undefined", "Exactly", "AtMost"}

\* (CSSMeasureMode) -1 and (CSSDirection) -1
Invalid == "Invalid"

CSS_MAX_CACHED_RESULT_COUNT == 16

leading(axis) == CASE axis = "Column" -> "Top" [] axis = "ColumnReverse" -> "Bottom" [] axis = "Row" -> "Left" [] axis = "RowReverse" -> "Right"

trailing(axis) == CASE axis = "Column" -> "Bottom" [] axis = "ColumnReverse" -> "Top" [] axis = "Row" -> "Right" [] axis = "RowReverse" -> "Left"

pos(axis) == CASE axis = "Column" -> "Top" [] axis = "ColumnReverse" -> "Bottom" [] axis = "Row" -> "Left" [] axis = "RowReverse" -> "Right"

dim(axis) == CASE axis = "Column" -> "Height" [] axis = "ColumnReverse" -> "Height" [] axis = "Row" -> "Width" [] axis = "RowReverse" -> "Width"

isRowDirection(flexDirection) == flexDirection = "Row" \/ flexDirection = "RowReverse"

isColumnDirection(flexDirection) == flexDirection = "Column" \/ flexDirection = "ColumnReverse"

(***************************************************************************)
(* A node after CSSNodeNew: calloc's zeroes, then CSSNodeInit.             *)
(***************************************************************************)
ZeroCachedMeasurement == [availableWidth |-> 0, availableHeight |-> 0, widthMeasureMode |-> "Undefined", heightMeasureMode |-> "Undefined", computedWidth |-> 0, computedHeight |-> 0]

InitStyle == [direction |-> "Inherit", flexDirection |-> "Column", justifyContent |-> "FlexStart", alignContent |-> "FlexStart", alignItems |-> "Stretch", alignSelf |-> "Auto", positionType |-> "Relative", flexWrap |-> "NoWrap", overflow |-> "Visible", flexGrow |-> 0, flexShrink |-> 0, flexBasis |-> CSSUndefined, margin |-> [e \in CSSEdge |-> CSSUndefined], position |-> [e \in CSSEdge |-> CSSUndefined], padding |-> [e \in CSSEdge |-> CSSUndefined], border |-> [e \in CSSEdge |-> CSSUndefined], dimensions |-> [d \in CSSDimension |-> CSSUndefined], minDimensions |-> [d \in CSSDimension |-> CSSUndefined], maxDimensions |-> [d \in CSSDimension |-> CSSUndefined]]

InitLayout == [position |-> [e \in {"Left", "Top", "Right", "Bottom"} |-> 0], dimensions |-> [d \in CSSDimension |-> CSSUndefined], direction |-> "Inherit", computedFlexBasis |-> CSSUndefined, generationCount |-> 0, lastParentDirection |-> Invalid, nextCachedMeasurementsIndex |-> 0, cachedMeasurements |-> [i \in 0 .. (CSS_MAX_CACHED_RESULT_COUNT - 1) |-> ZeroCachedMeasurement], measuredDimensions |-> [d \in CSSDimension |-> CSSUndefined], cachedLayout |-> [ZeroCachedMeasurement EXCEPT !.widthMeasureMode = Invalid, !.heightMeasureMode = Invalid]]

\* The last call of the host and what it did, kept for the properties: the
\* function, its node and arguments, the runs of layoutNodeImpl, the calls of
\* measure callbacks, whether an entry assertion of layoutNodeImpl fired,
\* whether a call of layoutNodeInternal passed a mode that does not match its
\* available size, whether layoutNodeInternal was entered again with the
\* arguments and the memory of a call still on the stack (so that the
\* recursion never ends), and whether the call stack was cut at MaxDepth;
\* stale: whether a size was served from an entry that Invalidate had
\* cleared.
NoProbe == [op |-> "none", node |-> NULL, arg |-> <<>>, reasons |-> {}, ran |-> <<>>, measured |-> <<>>, asserted |-> FALSE, mismatch |-> FALSE, stale |-> FALSE, diverged |-> FALSE, overflow |-> FALSE, stores |-> <<>>, divisors |-> {}]

CSSNodeInit == [parent |-> [n \in Node |-> NULL], children |-> [n \in Node |-> <<>>], style |-> [n \in Node |-> InitStyle], layout |-> [n \in Node |-> InitLayout], lineIndex |-> [n \in Node |-> 0], hasNewLayout |-> [n \in Node |-> TRUE], isTextNode |-> [n \in Node |-> FALSE], isDirty |-> [n \in Node |-> FALSE], nextChild |-> [n \in Node |-> NULL], measure |-> [n \in Node |-> NULL], gCurrentGenerationCount |-> 0, gDepth |-> 0, gNodeInstanceCount |-> NumNodes, heap |-> [live |-> Node, news |-> NumNodes, frees |-> 0], probe |-> NoProbe, active |-> <<>>, returned |-> FALSE, broken |-> FALSE]

(***************************************************************************)
(* Edges, axes and the style getters of the kernel.                        *)
(***************************************************************************)
computedEdgeValue(edges, edge, defaultValue) == IF ~CSSValueIsUndefined(edges[edge]) THEN edges[edge] ELSE IF edge \in {"Top", "Bottom"} /\ ~CSSValueIsUndefined(edges["Vertical"]) THEN edges["Vertical"] ELSE IF edge \in {"Left", "Right", "Start", "End"} /\ ~CSSValueIsUndefined(edges["Horizontal"]) THEN edges["Horizontal"] ELSE IF ~CSSValueIsUndefined(edges["All"]) THEN edges["All"] ELSE IF edge \in {"Start", "End"} THEN CSSUndefined ELSE defaultValue

getLeadingMargin(w, node, axis) == IF isRowDirection(axis) /\ ~CSSValueIsUndefined(w.style[node].margin["Start"]) THEN w.style[node].margin["Start"] ELSE computedEdgeValue(w.style[node].margin, leading(axis), 0)

getTrailingMargin(w, node, axis) == IF isRowDirection(axis) /\ ~CSSValueIsUndefined(w.style[node].margin["End"]) THEN w.style[node].margin["End"] ELSE computedEdgeValue(w.style[node].margin, trailing(axis), 0)

getLeadingPadding(w, node, axis) == IF isRowDirection(axis) /\ ~CSSValueIsUndefined(w.style[node].padding["Start"]) /\ FGe(w.style[node].padding["Start"], 0) THEN w.style[node].padding["Start"] ELSE IF FGe(computedEdgeValue(w.style[node].padding, leading(axis), 0), 0) THEN computedEdgeValue(w.style[node].padding, leading(axis), 0) ELSE 0

getTrailingPadding(w, node, axis) == IF isRowDirection(axis) /\ ~CSSValueIsUndefined(w.style[node].padding["End"]) /\ FGe(w.style[node].padding["End"], 0) THEN w.style[node].padding["End"] ELSE IF FGe(computedEdgeValue(w.style[node].padding, trailing(axis), 0), 0) THEN computedEdgeValue(w.style[node].padding, trailing(axis), 0) ELSE 0

getLeadingBorder(w, node, axis) == IF isRowDirection(axis) /\ ~CSSValueIsUndefined(w.style[node].border["Start"]) /\ FGe(w.style[node].border["Start"], 0) THEN w.style[node].border["Start"] ELSE IF FGe(computedEdgeValue(w.style[node].border, leading(axis), 0), 0) THEN computedEdgeValue(w.style[node].border, leading(axis), 0) ELSE 0

getTrailingBorder(w, node, axis) == IF isRowDirection(axis) /\ ~CSSValueIsUndefined(w.style[node].border["End"]) /\ FGe(w.style[node].border["End"], 0) THEN w.style[node].border["End"] ELSE IF FGe(computedEdgeValue(w.style[node].border, trailing(axis), 0), 0) THEN computedEdgeValue(w.style[node].border, trailing(axis), 0) ELSE 0

getLeadingPaddingAndBorder(w, node, axis) == FAdd(getLeadingPadding(w, node, axis), getLeadingBorder(w, node, axis))

getTrailingPaddingAndBorder(w, node, axis) == FAdd(getTrailingPadding(w, node, axis), getTrailingBorder(w, node, axis))

getMarginAxis(w, node, axis) == FAdd(getLeadingMargin(w, node, axis), getTrailingMargin(w, node, axis))

getPaddingAndBorderAxis(w, node, axis) == FAdd(getLeadingPaddingAndBorder(w, node, axis), getTrailingPaddingAndBorder(w, node, axis))

getAlignItem(w, node, child) == IF w.style[child].alignSelf # "Auto" THEN w.style[child].alignSelf ELSE w.style[node].alignItems

resolveDirection(w, node, parentDirection) == IF w.style[node].direction = "Inherit" THEN (IF parentDirection \in {"LTR", "RTL"} THEN parentDirection ELSE "LTR") ELSE w.style[node].direction

resolveAxis(flexDirection, direction) == IF direction = "RTL" /\ flexDirection = "Row" THEN "RowReverse" ELSE IF direction = "RTL" /\ flexDirection = "RowReverse" THEN "Row" ELSE flexDirection

getCrossFlexDirection(flexDirection, direction) == IF isColumnDirection(flexDirection) THEN resolveAxis("Row", direction) ELSE "Column"

isFlex(w, node) == w.style[node].positionType = "Relative" /\ (FNotEqual(w.style[node].flexGrow, 0) \/ FNotEqual(w.style[node].flexShrink, 0))

getDimWithMargin(w, node, axis) == FAdd(FAdd(w.layout[node].measuredDimensions[dim(axis)], getLeadingMargin(w, node, axis)), getTrailingMargin(w, node, axis))

isStyleDimDefined(w, node, axis) == ~CSSValueIsUndefined(w.style[node].dimensions[dim(axis)]) /\ FGe(w.style[node].dimensions[dim(axis)], 0)

isLayoutDimDefined(w, node, axis) == ~CSSValueIsUndefined(w.layout[node].measuredDimensions[dim(axis)]) /\ FGe(w.layout[node].measuredDimensions[dim(axis)], 0)

isLeadingPosDefined(w, node, axis) == (isRowDirection(axis) /\ ~CSSValueIsUndefined(computedEdgeValue(w.style[node].position, "Start", CSSUndefined))) \/ ~CSSValueIsUndefined(computedEdgeValue(w.style[node].position, leading(axis), CSSUndefined))

isTrailingPosDefined(w, node, axis) == (isRowDirection(axis) /\ ~CSSValueIsUndefined(computedEdgeValue(w.style[node].position, "End", CSSUndefined))) \/ ~CSSValueIsUndefined(computedEdgeValue(w.style[node].position, trailing(axis), CSSUndefined))

getLeadingPosition(w, node, axis) == IF isRowDirection(axis) /\ ~CSSValueIsUndefined(computedEdgeValue(w.style[node].position, "Start", CSSUndefined)) THEN computedEdgeValue(w.style[node].position, "Start", CSSUndefined) ELSE IF ~CSSValueIsUndefined(computedEdgeValue(w.style[node].position, leading(axis), CSSUndefined)) THEN computedEdgeValue(w.style[node].position, leading(axis), CSSUndefined) ELSE 0

getTrailingPosition(w, node, axis) == IF isRowDirection(axis) /\ ~CSSValueIsUndefined(computedEdgeValue(w.style[node].position, "End", CSSUndefined)) THEN computedEdgeValue(w.style[node].position, "End", CSSUndefined) ELSE IF ~CSSValueIsUndefined(computedEdgeValue(w.style[node].position, trailing(axis), CSSUndefined)) THEN computedEdgeValue(w.style[node].position, trailing(axis), CSSUndefined) ELSE 0

BoundMax(max, value) == IF ~CSSValueIsUndefined(max) /\ FGe(max, 0) /\ FGt(value, max) THEN max ELSE value

BoundMin(min, value) == IF ~CSSValueIsUndefined(min) /\ FGe(min, 0) /\ FLt(value, min) THEN min ELSE value

boundAxisWithinMinAndMax(w, node, axis, value) == BoundMin(w.style[node].minDimensions[dim(axis)], BoundMax(w.style[node].maxDimensions[dim(axis)], value))

boundAxis(w, node, axis, value) == fmaxf(boundAxisWithinMinAndMax(w, node, axis, value), getPaddingAndBorderAxis(w, node, axis))

\* Assignments to the fields of node->layout.
SetLayoutPosition(w, node, edge, value) == [w EXCEPT !.layout[node].position[edge] = value]

SetMeasuredDimension(w, node, d, value) == [w EXCEPT !.layout[node].measuredDimensions[d] = value]

setTrailingPosition(w, node, child, axis) == SetLayoutPosition(w, child, trailing(axis), FSub(FSub(w.layout[node].measuredDimensions[dim(axis)], w.layout[child].measuredDimensions[dim(axis)]), w.layout[child].position[pos(axis)]))

getRelativePosition(w, node, axis) == IF isLeadingPosDefined(w, node, axis) THEN getLeadingPosition(w, node, axis) ELSE FNeg(getTrailingPosition(w, node, axis))

\* The four assignments are made in the order of the source: when the two
\* axes named the same edge the later one would win.
SetPositionAxis(w, node, axis) == SetLayoutPosition(SetLayoutPosition(w, node, leading(axis), FAdd(getLeadingMargin(w, node, axis), getRelativePosition(w, node, axis))), node, trailing(axis), FAdd(getTrailingMargin(w, node, axis), getRelativePosition(w, node, axis)))

setPosition(w, node, direction) == SetPositionAxis(SetPositionAxis(w, node, resolveAxis(w.style[node].flexDirection, direction)), node, getCrossFlexDirection(resolveAxis(w.style[node].flexDirection, direction), direction))

(***************************************************************************)
(* The tree and the dirty flags.                                           *)
(***************************************************************************)
\* A _CSSNodeMarkDirty that stops at the node.
MarkDirtyAlone(w, node) == IF w.isDirty[node] THEN w ELSE [w EXCEPT !.isDirty[node] = TRUE, !.layout[node].computedFlexBasis = CSSUndefined]

\* A _CSSNodeMarkDirty that keeps computedFlexBasis.
RECURSIVE MarkDirtyKeepBasis(_, _)
MarkDirtyKeepBasis(w, node) == IF w.isDirty[node] THEN w ELSE IF w.parent[node] # NULL THEN MarkDirtyKeepBasis([w EXCEPT !.isDirty[node] = TRUE], w.parent[node]) ELSE [w EXCEPT !.isDirty[node] = TRUE]

\* Lines 212-220.
RECURSIVE _CSSNodeMarkDirty(_, _)
_CSSNodeMarkDirty(w, node) == IF w.isDirty[node] THEN w ELSE IF w.parent[node] # NULL THEN _CSSNodeMarkDirty([w EXCEPT !.isDirty[node] = TRUE, !.layout[node].computedFlexBasis = CSSUndefined], w.parent[node]) ELSE [w EXCEPT !.isDirty[node] = TRUE, !.layout[node].computedFlexBasis = CSSUndefined]

\* The child list is a container outside this file: an ordered sequence.
CSSNodeListInsert(list, child, index) == SubSeq(list, 1, index) \o <<child>> \o SubSeq(list, index + 1, Len(list))

IndexOf(list, child) == IF \E i \in 1 .. Len(list) : list[i] = child THEN CHOOSE i \in 1 .. Len(list) : list[i] = child /\ \A j \in 1 .. (i - 1) : list[j] # child ELSE 0

CSSNodeListDelete(list, child) == IF IndexOf(list, child) = 0 THEN list ELSE SubSeq(list, 1, IndexOf(list, child) - 1) \o SubSeq(list, IndexOf(list, child) + 1, Len(list))

CSSNodeChildCount(w, node) == Len(w.children[node])

\* CSSNodeGetChild(node, i), i counted from 0 as in the source.
CSSNodeGetChild(w, node, i) == w.children[node][i + 1]

CSSNodeInsertChild(w, node, child, index) == _CSSNodeMarkDirty([w EXCEPT !.children[node] = CSSNodeListInsert(w.children[node], child, index), !.parent[child] = node], node)

CSSNodeRemoveChild(w, node, child) == _CSSNodeMarkDirty([w EXCEPT !.children[node] = CSSNodeListDelete(w.children[node], child), !.parent[child] = NULL], node)

CSSNodeMarkDirty(w, node) == _CSSNodeMarkDirty(w, node)

(***************************************************************************)
(* Allocation.  heap.live is the set of nodes that are allocated; news and *)
(* frees count the calls of calloc and of free on nodes.                   *)
(***************************************************************************)
\* Lines 135-142; node is the address calloc returns.
CSSNodeNew(w, node) == [w EXCEPT !.heap = [live |-> @.live \cup {node}, news |-> @.news + 1, frees |-> @.frees], !.gNodeInstanceCount = @ + 1, !.parent[node] = NULL, !.children[node] = <<>>, !.style[node] = InitStyle, !.layout[node] = InitLayout, !.lineIndex[node] = 0, !.hasNewLayout[node] = TRUE, !.isTextNode[node] = FALSE, !.isDirty[node] = FALSE, !.nextChild[node] = NULL, !.measure[node] = NULL]

\* Lines 144-148.
CSSNodeFree(w, node) == [w EXCEPT !.children[node] = <<>>, !.heap = [live |-> @.live \ {node}, news |-> @.news, frees |-> @.frees + 1], !.gNodeInstanceCount = @ - 1]

\* A CSSNodeFreeRecursive that detaches the children and frees the root only.
RECURSIVE FreeRootOnly(_, _)
FreeRootOnly(w, root) == IF CSSNodeChildCount(w, root) > 0 THEN FreeRootOnly(CSSNodeRemoveChild(w, root, CSSNodeGetChild(w, root, 0)), root) ELSE CSSNodeFree(w, root)

\* Lines 150-157.
RECURSIVE CSSNodeFreeRecursive(_, _)
CSSNodeFreeRecursive(w, root) == IF CSSNodeChildCount(w, root) > 0 THEN CSSNodeFreeRecursive(CSSNodeFreeRecursive(CSSNodeRemoveChild(w, root, CSSNodeGetChild(w, root, 0)), CSSNodeGetChild(w, root, 0)), root) ELSE CSSNodeFree(w, root)

\* Lines 159-161.
CSSNodeGetInstanceCount(w) == w.gNodeInstanceCount

(***************************************************************************)
(* The style setters.  CSS_NODE_STYLE_PROPERTY_IMPL compares with !=,      *)
(* which on floats is true whenever an operand is NaN.                     *)
(***************************************************************************)
EnumFields == [direction |-> CSSDirection, flexDirection |-> CSSFlexDirection, justifyContent |-> CSSJustify, alignContent |-> CSSAlign, alignItems |-> CSSAlign, alignSelf |-> CSSAlign, positionType |-> CSSPositionType, flexWrap |-> CSSWrapType, overflow |-> CSSOverflow]

FloatFields == {"flexGrow", "flexShrink", "flexBasis"}

DimensionFields == {"dimensions", "minDimensions", "maxDimensions"}

EdgeFields == {"position", "margin", "padding", "border"}

CSSNodeStyleSetEnum(w, node, instanceName, paramName) == IF w.style[node][instanceName] # paramName THEN _CSSNodeMarkDirty([w EXCEPT !.style[node][instanceName] = paramName], node) ELSE w

CSSNodeStyleSetFloat(w, node, instanceName, paramName) == IF FNotEqual(w.style[node][instanceName], paramName) THEN _CSSNodeMarkDirty([w EXCEPT !.style[node][instanceName] = paramName], node) ELSE w

CSSNodeStyleSetDimension(w, node, instanceName, d, paramName) == IF FNotEqual(w.style[node][instanceName][d], paramName) THEN _CSSNodeMarkDirty([w EXCEPT !.style[node][instanceName][d] = paramName], node) ELSE w

CSSNodeStyleSetEdge(w, node, instanceName, edge, paramName) == IF FNotEqual(w.style[node][instanceName][edge], paramName) THEN _CSSNodeMarkDirty([w EXCEPT !.style[node][instanceName][edge] = paramName], node) ELSE w

CSSNodeStyleSetFlex(w, node, flex) == IF CSSValueIsUndefined(flex) \/ FEqual(flex, 0) THEN CSSNodeStyleSetFloat(CSSNodeStyleSetFloat(CSSNodeStyleSetFloat(w, node, "flexGrow", 0), node, "flexShrink", 0), node, "flexBasis", CSSUndefined) ELSE IF FGt(flex, 0) THEN CSSNodeStyleSetFloat(CSSNodeStyleSetFloat(CSSNodeStyleSetFloat(w, node, "flexGrow", flex), node, "flexShrink", 0), node, "flexBasis", 0) ELSE CSSNodeStyleSetFloat(CSSNodeStyleSetFloat(CSSNodeStyleSetFloat(w, node, "flexGrow", 0), node, "flexShrink", FNeg(flex)), node, "flexBasis", CSSUndefined)

CSSNodeSetMeasureFunc(w, node, measureFunc) == [w EXCEPT !.measure[node] = measureFunc]

CSSNodeSetIsTextnode(w, node, flag) == [w EXCEPT !.isTextNode[node] = flag]

CSSNodeSetHasNewLayout(w, node, flag) == [w EXCEPT !.hasNewLayout[node] = flag]

(***************************************************************************)
(* The measure callbacks of the host.  node->measure points into this      *)
(* table (NULL is 0).  A callback reports the size of its content, and     *)
(* wraps it to the offered size when the mode is AtMost or Exactly.        *)
(***************************************************************************)
MeasureFuncs == <<[width |-> 8, height |-> 2], [width |-> 3, height |-> 4]>>

MeasureDim(content, inner, mode) == IF mode = "Undefined" \/ CSSValueIsUndefined(inner) THEN content ELSE IF mode = "Exactly" THEN inner ELSE fminf(content, inner)

CallMeasure(w, node, innerWidth, widthMeasureMode, innerHeight, heightMeasureMode) == [width |-> MeasureDim(MeasureFuncs[w.measure[node]].width, innerWidth, widthMeasureMode), height |-> MeasureDim(MeasureFuncs[w.measure[node]].height, innerHeight, heightMeasureMode)]

(***************************************************************************)
(* The cache.                                                              *)
(***************************************************************************)
IsSame(cachedMode, cachedAvailable, mode, available) == (cachedMode = "Undefined" /\ mode = "Undefined") \/ (cachedMode = mode /\ eq(cachedAvailable, available))

IsValid(cachedMode, cachedComputed, mode, available, margin) == (cachedMode = "Undefined" /\ mode = "AtMost" /\ FLe(cachedComputed, FSub(available, margin))) \/ (mode = "Exactly" /\ eq(cachedComputed, FSub(available, margin)))

TextNodeHeuristics(availableWidth, marginRow, widthMeasureMode, isWidthSame, cachedLayout) == isWidthSame \/ (cachedLayout.widthMeasureMode = "Undefined" /\ (widthMeasureMode = "Undefined" \/ (widthMeasureMode = "AtMost" /\ FLe(cachedLayout.computedWidth, FSub(availableWidth, marginRow)))))

canUseCachedMeasurement(isTextNodeArg, availableWidth, availableHeight, marginRow, marginColumn, widthMeasureMode, heightMeasureMode, cachedLayout) ==
  LET isHeightSame == IsSame(cachedLayout.heightMeasureMode, cachedLayout.availableHeight, heightMeasureMode, availableHeight)
      isWidthSame == IsSame(cachedLayout.widthMeasureMode, cachedLayout.availableWidth, widthMeasureMode, availableWidth)
      isHeightValid == IsValid(cachedLayout.heightMeasureMode, cachedLayout.computedHeight, heightMeasureMode, availableHeight, marginColumn)
      isWidthValid == IsValid(cachedLayout.widthMeasureMode, cachedLayout.computedWidth, widthMeasureMode, availableWidth, marginRow)
  IN \/ (isHeightSame /\ isWidthSame)
     \/ (isWidthSame /\ isHeightValid)
     \/ (isHeightSame /\ isWidthValid)
     \/ (isHeightValid /\ isWidthValid)
     \/ (isTextNodeArg /\ TextNodeHeuristics(availableWidth, marginRow, widthMeasureMode, isWidthSame, cachedLayout))

\* A value of cachedResults: NoCachedResults is NULL, an index below
\* CSS_MAX_CACHED_RESULT_COUNT points into cachedMeasurements, and
\* CachedLayoutEntry is &layout->cachedLayout.
NoCachedResults == -1

CachedLayoutEntry == CSS_MAX_CACHED_RESULT_COUNT

CachedEntry(w, node, cachedResults) == IF cachedResults = CachedLayoutEntry THEN w.layout[node].cachedLayout ELSE w.layout[node].cachedMeasurements[cachedResults]

FirstEntry(matching) == IF matching = {} THEN NoCachedResults ELSE CHOOSE i \in matching : \A j \in matching : i <= j

ExactMatch(entry, availableWidth, availableHeight, widthMeasureMode, heightMeasureMode) == eq(entry.availableWidth, availableWidth) /\ eq(entry.availableHeight, availableHeight) /\ entry.widthMeasureMode = widthMeasureMode /\ entry.heightMeasureMode = heightMeasureMode

MeasureLeafLookup(w, node, availableWidth, availableHeight, widthMeasureMode, heightMeasureMode) == IF canUseCachedMeasurement(w.isTextNode[node], availableWidth, availableHeight, getMarginAxis(w, node, "Row"), getMarginAxis(w, node, "Column"), widthMeasureMode, heightMeasureMode, w.layout[node].cachedLayout) THEN CachedLayoutEntry ELSE FirstEntry({i \in 0 .. (w.layout[node].nextCachedMeasurementsIndex - 1) : canUseCachedMeasurement(w.isTextNode[node], availableWidth, availableHeight, getMarginAxis(w, node, "Row"), getMarginAxis(w, node, "Column"), widthMeasureMode, heightMeasureMode, w.layout[node].cachedMeasurements[i])})

CacheLookup(w, node, availableWidth, availableHeight, widthMeasureMode, heightMeasureMode, performLayout) == IF w.measure[node] # NULL /\ CSSNodeChildCount(w, node) = 0 THEN MeasureLeafLookup(w, node, availableWidth, availableHeight, widthMeasureMode, heightMeasureMode) ELSE IF performLayout THEN (IF ExactMatch(w.layout[node].cachedLayout, availableWidth, availableHeight, widthMeasureMode, heightMeasureMode) THEN CachedLayoutEntry ELSE NoCachedResults) ELSE FirstEntry({i \in 0 .. (w.layout[node].nextCachedMeasurementsIndex - 1) : ExactMatch(w.layout[node].cachedMeasurements[i], availableWidth, availableHeight, widthMeasureMode, heightMeasureMode)})

NewCacheEntry(w, node, availableWidth, availableHeight, widthMeasureMode, heightMeasureMode) == [availableWidth |-> availableWidth, availableHeight |-> availableHeight, widthMeasureMode |-> widthMeasureMode, heightMeasureMode |-> heightMeasureMode, computedWidth |-> w.layout[node].measuredDimensions["Width"], computedHeight |-> w.layout[node].measuredDimensions["Height"]]

\* Lines 2261-2285: the ring wraps to slot 0 when it is full.
WrapIndex(index) == IF index = CSS_MAX_CACHED_RESULT_COUNT THEN 0 ELSE index

\* A measurement the ring held before a store is lost by it when the lookup
\* of lines 2157-2204 found it before the store and does not find it after.
Lost(w0, w1, node) == {i \in 0 .. (w0.layout[node].nextCachedMeasurementsIndex - 1) : w1.layout[node].cachedMeasurements[i] = w0.layout[node].cachedMeasurements[i] /\ CacheLookup(w1, node, w0.layout[node].cachedMeasurements[i].availableWidth, w0.layout[node].cachedMeasurements[i].availableHeight, w0.layout[node].cachedMeasurements[i].widthMeasureMode, w0.layout[node].cachedMeasurements[i].heightMeasureMode, FALSE) = NoCachedResults}

\* Each store is noted: the cursor before and after it, the slots it wrote
\* and the measurements it lost.
NoteStore(w0, w1, node, performLayout) == [w1 EXCEPT !.probe.stores = Append(@, [node |-> node, performLayout |-> performLayout, before |-> w0.layout[node].nextCachedMeasurementsIndex, after |-> w1.layout[node].nextCachedMeasurementsIndex, slot |-> IF performLayout THEN CachedLayoutEntry ELSE WrapIndex(w0.layout[node].nextCachedMeasurementsIndex), written |-> {i \in 0 .. (CSS_MAX_CACHED_RESULT_COUNT - 1) : w1.layout[node].cachedMeasurements[i] # w0.layout[node].cachedMeasurements[i]}, cachedLayout |-> w1.layout[node].cachedLayout # w0.layout[node].cachedLayout, lost |-> Lost(w0, w1, node)])]

WriteCacheEntry(w, node, availableWidth, availableHeight, widthMeasureMode, heightMeasureMode, performLayout) == IF performLayout THEN [w EXCEPT !.layout[node].nextCachedMeasurementsIndex = WrapIndex(@), !.layout[node].cachedLayout = NewCacheEntry(w, node, availableWidth, availableHeight, widthMeasureMode, heightMeasureMode)] ELSE [w EXCEPT !.layout[node].nextCachedMeasurementsIndex = WrapIndex(@) + 1, !.layout[node].cachedMeasurements[WrapIndex(w.layout[node].nextCachedMeasurementsIndex)] = NewCacheEntry(w, node, availableWidth, availableHeight, widthMeasureMode, heightMeasureMode)]

StoreCacheEntry(w, node, availableWidth, availableHeight, widthMeasureMode, heightMeasureMode, performLayout) == NoteStore(w, WriteCacheEntry(w, node, availableWidth, availableHeight, widthMeasureMode, heightMeasureMode, performLayout), node, performLayout)

(***************************************************************************)
(* layoutNodeImpl.  The constants of one invocation (its arguments and the *)
(* values of steps 1 and 2) travel in the record c.                        *)
(***************************************************************************)
RECURSIVE layoutNodeInternal(_, _, _, _, _, _, _, _, _)

ImplArgs(w, node, availableWidth, availableHeight, parentDirection, widthMeasureMode, heightMeasureMode, performLayout) == [node |-> node, availableWidth |-> availableWidth, availableHeight |-> availableHeight, parentDirection |-> parentDirection, widthMeasureMode |-> widthMeasureMode, heightMeasureMode |-> heightMeasureMode, performLayout |-> performLayout, paddingAndBorderAxisRow |-> getPaddingAndBorderAxis(w, node, "Row"), paddingAndBorderAxisColumn |-> getPaddingAndBorderAxis(w, node, "Column"), marginAxisRow |-> getMarginAxis(w, node, "Row"), marginAxisColumn |-> getMarginAxis(w, node, "Column"), direction |-> resolveDirection(w, node, parentDirection), childCount |-> CSSNodeChildCount(w, node)]

ImplAxes(w, a) ==
  LET mainAxis == resolveAxis(w.style[a.node].flexDirection, a.direction)
      crossAxis == getCrossFlexDirection(mainAxis, a.direction)
      isMainAxisRow == isRowDirection(mainAxis)
      availableInnerWidth == FSub(FSub(a.availableWidth, a.marginAxisRow), a.paddingAndBorderAxisRow)
      availableInnerHeight == FSub(FSub(a.availableHeight, a.marginAxisColumn), a.paddingAndBorderAxisColumn)
  IN [mainAxis |-> mainAxis, crossAxis |-> crossAxis, isMainAxisRow |-> isMainAxisRow, justifyContent |-> w.style[a.node].justifyContent, isNodeFlexWrap |-> (w.style[a.node].flexWrap = "Wrap"), leadingPaddingAndBorderMain |-> getLeadingPaddingAndBorder(w, a.node, mainAxis), trailingPaddingAndBorderMain |-> getTrailingPaddingAndBorder(w, a.node, mainAxis), leadingPaddingAndBorderCross |-> getLeadingPaddingAndBorder(w, a.node, crossAxis), paddingAndBorderAxisMain |-> getPaddingAndBorderAxis(w, a.node, mainAxis), paddingAndBorderAxisCross |-> getPaddingAndBorderAxis(w, a.node, crossAxis), measureModeMainDim |-> (IF isMainAxisRow THEN a.widthMeasureMode ELSE a.heightMeasureMode), measureModeCrossDim |-> (IF isMainAxisRow THEN a.heightMeasureMode ELSE a.widthMeasureMode), availableInnerWidth |-> availableInnerWidth, availableInnerHeight |-> availableInnerHeight, availableInnerMainDim |-> (IF isMainAxisRow THEN availableInnerWidth ELSE availableInnerHeight), availableInnerCrossDim |-> (IF isMainAxisRow THEN availableInnerHeight ELSE availableInnerWidth)]

\* c = the arguments and the constants of steps 1 and 2 together.
ImplContext(w, a) == a @@ ImplAxes(w, a)

SetMeasuredDimensions(w, node, width, height) == [w EXCEPT !.layout[node].measuredDimensions = [Width |-> width, Height |-> height]]

IsLooseMode(mode) == mode = "Undefined" \/ mode = "AtMost"

\* A MeasureLeaf that calls the callback under every constraint.
MeasureLeafAlways(w, a) == SetMeasuredDimensions([w EXCEPT !.probe.measured = Append(@, [node |-> a.node, innerWidth |-> FSub(FSub(a.availableWidth, a.marginAxisRow), a.paddingAndBorderAxisRow), widthMeasureMode |-> a.widthMeasureMode, innerHeight |-> FSub(FSub(a.availableHeight, a.marginAxisColumn), a.paddingAndBorderAxisColumn), heightMeasureMode |-> a.heightMeasureMode])], a.node, boundAxis(w, a.node, "Row", FSub(a.availableWidth, a.marginAxisRow)), boundAxis(w, a.node, "Column", FSub(a.availableHeight, a.marginAxisColumn)))

\* Lines 1171-1209: a leaf with a measure callback.
MeasureLeaf(w, a) ==
  LET innerWidth == FSub(FSub(a.availableWidth, a.marginAxisRow), a.paddingAndBorderAxisRow)
      innerHeight == FSub(FSub(a.availableHeight, a.marginAxisColumn), a.paddingAndBorderAxisColumn)
      measuredSize == CallMeasure(w, a.node, innerWidth, a.widthMeasureMode, innerHeight, a.heightMeasureMode)
  IN IF a.widthMeasureMode = "Exactly" /\ a.heightMeasureMode = "Exactly"
     THEN SetMeasuredDimensions(w, a.node, boundAxis(w, a.node, "Row", FSub(a.availableWidth, a.marginAxisRow)), boundAxis(w, a.node, "Column", FSub(a.availableHeight, a.marginAxisColumn)))
     ELSE IF FLe(innerWidth, 0) \/ FLe(innerHeight, 0)
     THEN SetMeasuredDimensions(w, a.node, boundAxis(w, a.node, "Row", 0), boundAxis(w, a.node, "Column", 0))
     ELSE SetMeasuredDimensions([w EXCEPT !.probe.measured = Append(@, [node |-> a.node, innerWidth |-> innerWidth, widthMeasureMode |-> a.widthMeasureMode, innerHeight |-> innerHeight, heightMeasureMode |-> a.heightMeasureMode])], a.node, boundAxis(w, a.node, "Row", IF IsLooseMode(a.widthMeasureMode) THEN FAdd(measuredSize.width, a.paddingAndBorderAxisRow) ELSE FSub(a.availableWidth, a.marginAxisRow)), boundAxis(w, a.node, "Column", IF IsLooseMode(a.heightMeasureMode) THEN FAdd(measuredSize.height, a.paddingAndBorderAxisColumn) ELSE FSub(a.availableHeight, a.marginAxisColumn)))

\* Lines 1214-1231: a node without children.
NoChildren(w, a) == SetMeasuredDimensions(w, a.node, boundAxis(w, a.node, "Row", IF IsLooseMode(a.widthMeasureMode) THEN a.paddingAndBorderAxisRow ELSE FSub(a.availableWidth, a.marginAxisRow)), boundAxis(w, a.node, "Column", IF IsLooseMode(a.heightMeasureMode) THEN a.paddingAndBorderAxisColumn ELSE FSub(a.availableHeight, a.marginAxisColumn)))

\* Lines 1236-1278: the cases a measurement settles without its children.
CanShortcut(a) == ~a.performLayout /\ ((a.widthMeasureMode = "AtMost" /\ FLe(a.availableWidth, 0)) \/ (a.heightMeasureMode = "AtMost" /\ FLe(a.availableHeight, 0)) \/ (a.widthMeasureMode = "Exactly" /\ a.heightMeasureMode = "Exactly"))

Shortcut(w, a) ==
  IF a.widthMeasureMode = "AtMost" /\ FLe(a.availableWidth, 0) /\ a.heightMeasureMode = "AtMost" /\ FLe(a.availableHeight, 0)
  THEN SetMeasuredDimensions(w, a.node, boundAxis(w, a.node, "Row", 0), boundAxis(w, a.node, "Column", 0))
  ELSE IF a.widthMeasureMode = "AtMost" /\ FLe(a.availableWidth, 0)
  THEN SetMeasuredDimensions(w, a.node, boundAxis(w, a.node, "Row", 0), boundAxis(w, a.node, "Column", IF CSSValueIsUndefined(a.availableHeight) THEN 0 ELSE FSub(a.availableHeight, a.marginAxisColumn)))
  ELSE IF a.heightMeasureMode = "AtMost" /\ FLe(a.availableHeight, 0)
  THEN SetMeasuredDimensions(w, a.node, boundAxis(w, a.node, "Row", IF CSSValueIsUndefined(a.availableWidth) THEN 0 ELSE FSub(a.availableWidth, a.marginAxisRow)), boundAxis(w, a.node, "Column", 0))
  ELSE SetMeasuredDimensions(w, a.node, boundAxis(w, a.node, "Row", FSub(a.availableWidth, a.marginAxisRow)), boundAxis(w, a.node, "Column", FSub(a.availableHeight, a.marginAxisColumn)))

(***************************************************************************)
(* computeChildFlexBasis (step 3) and absoluteLayoutChild (step 10).       *)
(***************************************************************************)
SetComputedFlexBasis(w, child, value) == [w EXCEPT !.layout[child].computedFlexBasis = value]

\* Lines 863-911: the constraint under which the child is measured.
FlexBasisConstraint(w, node, child, width, widthMode, height, heightMode, isMainAxisRow) ==
  LET overflowScroll == w.style[node].overflow = "Scroll"
      styleWidth == isStyleDimDefined(w, child, "Row")
      styleHeight == isStyleDimDefined(w, child, "Column")
      width1 == IF styleWidth THEN [size |-> FAdd(w.style[child].dimensions["Width"], getMarginAxis(w, child, "Row")), mode |-> "Exactly"] ELSE [size |-> CSSUndefined, mode |-> "Undefined"]
      height1 == IF styleHeight THEN [size |-> FAdd(w.style[child].dimensions["Height"], getMarginAxis(w, child, "Column")), mode |-> "Exactly"] ELSE [size |-> CSSUndefined, mode |-> "Undefined"]
      width2 == IF ((~isMainAxisRow /\ overflowScroll) \/ ~overflowScroll) /\ CSSValueIsUndefined(width1.size) /\ ~CSSValueIsUndefined(width) THEN [size |-> width, mode |-> "AtMost"] ELSE width1
      height2 == IF ((isMainAxisRow /\ overflowScroll) \/ ~overflowScroll) /\ CSSValueIsUndefined(height1.size) /\ ~CSSValueIsUndefined(height) THEN [size |-> height, mode |-> "AtMost"] ELSE height1
      width3 == IF ~isMainAxisRow /\ ~CSSValueIsUndefined(width) /\ ~styleWidth /\ widthMode = "Exactly" /\ getAlignItem(w, node, child) = "Stretch" THEN [size |-> width, mode |-> "Exactly"] ELSE width2
      height3 == IF isMainAxisRow /\ ~CSSValueIsUndefined(height) /\ ~styleHeight /\ heightMode = "Exactly" /\ getAlignItem(w, node, child) = "Stretch" THEN [size |-> height, mode |-> "Exactly"] ELSE height2
  IN [childWidth |-> width3.size, childWidthMeasureMode |-> width3.mode, childHeight |-> height3.size, childHeightMeasureMode |-> height3.mode]

MeasuredFlexBasis(w, child, mainAxis) == SetComputedFlexBasis(w, child, fmaxf(w.layout[child].measuredDimensions[dim(mainAxis)], getPaddingAndBorderAxis(w, child, mainAxis)))

\* Lines 846-927.  m is the constraint of FlexBasisConstraint.
ChildFlexBasis(w, child, width, height, direction, mainAxis, m) ==
  IF ~CSSValueIsUndefined(w.style[child].flexBasis) /\ ~CSSValueIsUndefined(IF isRowDirection(mainAxis) THEN width ELSE height)
  THEN (IF CSSValueIsUndefined(w.layout[child].computedFlexBasis) THEN SetComputedFlexBasis(w, child, fmaxf(w.style[child].flexBasis, getPaddingAndBorderAxis(w, child, mainAxis))) ELSE w)
  ELSE IF isRowDirection(mainAxis) /\ isStyleDimDefined(w, child, "Row")
  THEN SetComputedFlexBasis(w, child, fmaxf(w.style[child].dimensions["Width"], getPaddingAndBorderAxis(w, child, "Row")))
  ELSE IF ~isRowDirection(mainAxis) /\ isStyleDimDefined(w, child, "Column")
  THEN SetComputedFlexBasis(w, child, fmaxf(w.style[child].dimensions["Height"], getPaddingAndBorderAxis(w, child, "Column")))
  ELSE MeasuredFlexBasis(layoutNodeInternal(w, child, m.childWidth, m.childHeight, direction, m.childWidthMeasureMode, m.childHeightMeasureMode, FALSE, "measure"), child, mainAxis)

computeChildFlexBasis(w, node, child, width, widthMode, height, heightMode, direction) == ChildFlexBasis(w, child, width, height, direction, resolveAxis(w.style[node].flexDirection, direction), FlexBasisConstraint(w, node, child, width, widthMode, height, heightMode, isRowDirection(resolveAxis(w.style[node].flexDirection, direction))))

\* Lines 944-978: the size the style or the two offsets of an axis give.
AbsoluteChildSize(w, node, child, axis) == IF isStyleDimDefined(w, child, axis) THEN FAdd(w.style[child].dimensions[dim(axis)], getMarginAxis(w, child, axis)) ELSE IF isLeadingPosDefined(w, child, axis) /\ isTrailingPosDefined(w, child, axis) THEN boundAxis(w, child, axis, FSub(FSub(w.layout[node].measuredDimensions[dim(axis)], FAdd(getLeadingBorder(w, node, axis), getTrailingBorder(w, node, axis))), FAdd(getLeadingPosition(w, child, axis), getTrailingPosition(w, child, axis)))) ELSE CSSUndefined

\* Lines 981-1008: measure the content when a dimension is still missing.
AbsoluteMeasure(w, node, child, childWidth, childHeight, width, widthMode, direction, isMainAxisRow) == IF ~isMainAxisRow /\ CSSValueIsUndefined(childWidth) /\ widthMode # "Undefined" THEN layoutNodeInternal(w, child, width, childHeight, direction, "AtMost", IF CSSValueIsUndefined(childHeight) THEN "Undefined" ELSE "Exactly", FALSE, "abs-measure") ELSE layoutNodeInternal(w, child, childWidth, childHeight, direction, IF CSSValueIsUndefined(childWidth) THEN "Undefined" ELSE "Exactly", IF CSSValueIsUndefined(childHeight) THEN "Undefined" ELSE "Exactly", FALSE, "abs-measure")

\* Lines 1010-1017: the layout call, with the measured size if one was taken.
AbsoluteLayout(w, w0, child, childWidth, childHeight, direction) == IF CSSValueIsUndefined(childWidth) \/ CSSValueIsUndefined(childHeight) THEN layoutNodeInternal(w, child, FAdd(w.layout[child].measuredDimensions["Width"], getMarginAxis(w, child, "Row")), FAdd(w.layout[child].measuredDimensions["Height"], getMarginAxis(w, child, "Column")), direction, "Exactly", "Exactly", TRUE, "abs-layout") ELSE layoutNodeInternal(w0, child, childWidth, childHeight, direction, "Exactly", "Exactly", TRUE, "abs-layout")

\* Lines 1019-1029: a child held by its trailing offset only.
AbsoluteTrailing(w, node, child, axis) == IF isTrailingPosDefined(w, child, axis) /\ ~isLeadingPosDefined(w, child, axis) THEN SetLayoutPosition(w, child, leading(axis), FSub(FSub(w.layout[node].measuredDimensions[dim(axis)], w.layout[child].measuredDimensions[dim(axis)]), getTrailingPosition(w, child, axis))) ELSE w

\* Lines 927-1030.  childWidth and childHeight are the two AbsoluteChildSize.
AbsoluteChild(w, node, child, width, widthMode, direction, mainAxis, childWidth, childHeight) == AbsoluteTrailing(AbsoluteTrailing(AbsoluteLayout(AbsoluteMeasure(w, node, child, childWidth, childHeight, width, widthMode, direction, isRowDirection(mainAxis)), w, child, childWidth, childHeight, direction), node, child, mainAxis), node, child, getCrossFlexDirection(mainAxis, direction))

absoluteLayoutChild(w, node, child, width, widthMode, direction) == AbsoluteChild(w, node, child, width, widthMode, direction, resolveAxis(w.style[node].flexDirection, direction), AbsoluteChildSize(w, node, child, "Row"), AbsoluteChildSize(w, node, child, "Column"))

(***************************************************************************)
(* Steps 3 to 5 of layoutNodeImpl.                                         *)
(***************************************************************************)
\* The call stack was cut: every caller returns at once.
Broken(w) == w.broken

Diverge(w) == [w EXCEPT !.probe.diverged = TRUE, !.broken = TRUE]

Cut(w) == [w EXCEPT !.probe.overflow = TRUE, !.broken = TRUE]

\* current->nextChild = child (if there is a current one); child->nextChild = NULL
AppendToList(w, current, child) == [w EXCEPT !.nextChild[IF current # NULL THEN current ELSE child] = child, !.nextChild[child] = NULL]

RECURSIVE FlexBasisLoop(_, _, _)
\* Lines 1318-1337: one child of the loop, w1 being the memory after its
\* setPosition.  s = [w, firstAbsoluteChild, currentAbsoluteChild]
FlexBasisChild(s, c, child, w1) == IF w1.style[child].positionType = "Absolute" THEN [w |-> AppendToList(w1, s.currentAbsoluteChild, child), firstAbsoluteChild |-> IF s.firstAbsoluteChild = NULL THEN child ELSE s.firstAbsoluteChild, currentAbsoluteChild |-> child] ELSE [s EXCEPT !.w = computeChildFlexBasis(w1, c.node, child, c.availableInnerWidth, c.widthMeasureMode, c.availableInnerHeight, c.heightMeasureMode, c.direction)]

\* Lines 1310-1314.
PositionedChild(w, c, child) == IF c.performLayout THEN setPosition(w, child, resolveDirection(w, child, c.direction)) ELSE w

\* Lines 1307-1338: step 3.
FlexBasisLoop(s, c, i) == IF Broken(s.w) \/ i >= c.childCount THEN s ELSE FlexBasisLoop(FlexBasisChild(s, c, CSSNodeGetChild(s.w, c.node, i), PositionedChild(s.w, c, CSSNodeGetChild(s.w, c.node, i))), c, i + 1)

\* Lines 1360-1416.  t = the variables of one line; t.full is the break.
NewLine(w, startOfLineIndex) == [w |-> w, endOfLineIndex |-> startOfLineIndex, itemsOnLine |-> 0, sizeConsumedOnCurrentLine |-> 0, totalFlexGrowFactors |-> 0, totalFlexShrinkScaledFactors |-> 0, firstRelativeChild |-> NULL, currentRelativeChild |-> NULL, full |-> FALSE]

AddToLine(t, w, child, outerFlexBasis) == [w |-> AppendToList(w, t.currentRelativeChild, child), endOfLineIndex |-> t.endOfLineIndex + 1, itemsOnLine |-> t.itemsOnLine + 1, sizeConsumedOnCurrentLine |-> FAdd(t.sizeConsumedOnCurrentLine, outerFlexBasis), totalFlexGrowFactors |-> IF isFlex(w, child) THEN FAdd(t.totalFlexGrowFactors, w.style[child].flexGrow) ELSE t.totalFlexGrowFactors, totalFlexShrinkScaledFactors |-> IF isFlex(w, child) THEN FAdd(t.totalFlexShrinkScaledFactors, FMul(FNeg(w.style[child].flexShrink), w.layout[child].computedFlexBasis)) ELSE t.totalFlexShrinkScaledFactors, firstRelativeChild |-> IF t.firstRelativeChild = NULL THEN child ELSE t.firstRelativeChild, currentRelativeChild |-> child, full |-> FALSE]

\* A CollectLine that closes a wrapping line after its first item.
RECURSIVE CollectLineEach(_, _, _, _)
CollectLineEach(t, c, i, lineCount) == IF i >= c.childCount \/ t.full THEN t ELSE IF c.isNodeFlexWrap /\ t.itemsOnLine > 0 THEN [t EXCEPT !.w.lineIndex[CSSNodeGetChild(t.w, c.node, i)] = lineCount, !.full = TRUE] ELSE CollectLineEach(AddToLine(t, [t.w EXCEPT !.lineIndex[CSSNodeGetChild(t.w, c.node, i)] = lineCount], CSSNodeGetChild(t.w, c.node, i), FAdd(t.w.layout[CSSNodeGetChild(t.w, c.node, i)].computedFlexBasis, getMarginAxis(t.w, CSSNodeGetChild(t.w, c.node, i), c.mainAxis))), c, i + 1, lineCount)

RECURSIVE CollectLine(_, _, _, _)
CollectLine(t, c, i, lineCount) ==
  IF i >= c.childCount \/ t.full THEN t
  ELSE LET child == CSSNodeGetChild(t.w, c.node, i)
           w1 == [t.w EXCEPT !.lineIndex[child] = lineCount]
           outerFlexBasis == FAdd(w1.layout[child].computedFlexBasis, getMarginAxis(w1, child, c.mainAxis))
       IN IF w1.style[child].positionType = "Absolute"
          THEN CollectLine([t EXCEPT !.w = w1, !.endOfLineIndex = @ + 1], c, i + 1, lineCount)
          ELSE IF FGt(FAdd(t.sizeConsumedOnCurrentLine, outerFlexBasis), c.availableInnerMainDim) /\ c.isNodeFlexWrap /\ t.itemsOnLine > 0
          THEN [t EXCEPT !.w = w1, !.full = TRUE]
          ELSE CollectLine(AddToLine(t, w1, child, outerFlexBasis), c, i + 1, lineCount)

\* Lines 1432-1444.
InitialFreeSpace(c, t) == IF ~CSSValueIsUndefined(c.availableInnerMainDim) THEN FSub(c.availableInnerMainDim, t.sizeConsumedOnCurrentLine) ELSE IF FLt(t.sizeConsumedOnCurrentLine, 0) THEN FNeg(t.sizeConsumedOnCurrentLine) ELSE 0

\* Lines 1482-1527: the first pass.  p = [deltaFreeSpace,
\* deltaFlexShrinkScaledFactors, deltaFlexGrowFactors]
FirstPassChild(w, c, t, remainingFreeSpace, child, p) ==
  LET childFlexBasis == w.layout[child].computedFlexBasis
      flexShrinkScaledFactor == FMul(FNeg(w.style[child].flexShrink), childFlexBasis)
      flexGrowFactor == w.style[child].flexGrow
      shrunk == FAdd(childFlexBasis, FScale(remainingFreeSpace, t.totalFlexShrinkScaledFactors, flexShrinkScaledFactor))
      grown == FAdd(childFlexBasis, FScale(remainingFreeSpace, t.totalFlexGrowFactors, flexGrowFactor))
  IN IF FLt(remainingFreeSpace, 0)
     THEN (IF FNotEqual(flexShrinkScaledFactor, 0) /\ FNotEqual(shrunk, boundAxis(w, child, c.mainAxis, shrunk)) THEN [p EXCEPT !.deltaFreeSpace = FSub(@, FSub(boundAxis(w, child, c.mainAxis, shrunk), childFlexBasis)), !.deltaFlexShrinkScaledFactors = FSub(@, flexShrinkScaledFactor)] ELSE p)
     ELSE IF FGt(remainingFreeSpace, 0)
     THEN (IF FNotEqual(flexGrowFactor, 0) /\ FNotEqual(grown, boundAxis(w, child, c.mainAxis, grown)) THEN [p EXCEPT !.deltaFreeSpace = FSub(@, FSub(boundAxis(w, child, c.mainAxis, grown), childFlexBasis)), !.deltaFlexGrowFactors = FSub(@, flexGrowFactor)] ELSE p)
     ELSE p

RECURSIVE FirstPass(_, _, _, _, _, _, _)
FirstPass(w, c, t, remainingFreeSpace, currentRelativeChild, p, fuel) == IF currentRelativeChild = NULL \/ fuel = 0 THEN p ELSE FirstPass(w, c, t, remainingFreeSpace, w.nextChild[currentRelativeChild], FirstPassChild(w, c, t, remainingFreeSpace, currentRelativeChild, p), fuel - 1)

\* An UpdatedMainSize that hands every growing child half of the free space.
UpdatedMainSizeHalf(w, c, f, child) == IF FGt(f.remainingFreeSpace, 0) /\ FNotEqual(w.style[child].flexGrow, 0) THEN boundAxis(w, child, c.mainAxis, FAdd(w.layout[child].computedFlexBasis, FDiv(f.remainingFreeSpace, 2))) ELSE w.layout[child].computedFlexBasis

\* Lines 1537-1567: the main size the second pass gives a child.
UpdatedMainSize(w, c, f, child) ==
  LET childFlexBasis == w.layout[child].computedFlexBasis
      flexShrinkScaledFactor == FMul(FNeg(w.style[child].flexShrink), childFlexBasis)
      flexGrowFactor == w.style[child].flexGrow
  IN IF FLt(f.remainingFreeSpace, 0)
     THEN (IF FNotEqual(flexShrinkScaledFactor, 0) THEN boundAxis(w, child, c.mainAxis, IF FEqual(f.totalFlexShrinkScaledFactors, 0) THEN FAdd(childFlexBasis, flexShrinkScaledFactor) ELSE FAdd(childFlexBasis, FScale(f.remainingFreeSpace, f.totalFlexShrinkScaledFactors, flexShrinkScaledFactor))) ELSE childFlexBasis)
     ELSE IF FGt(f.remainingFreeSpace, 0)
     THEN (IF FNotEqual(flexGrowFactor, 0) THEN boundAxis(w, child, c.mainAxis, FAdd(childFlexBasis, FScale(f.remainingFreeSpace, f.totalFlexGrowFactors, flexGrowFactor))) ELSE childFlexBasis)
     ELSE childFlexBasis

\* A CrossConstraint that bounds the child by a cross size it does not have.
CrossConstraintAtMost(w, c, child, axis, mode) == IF ~isStyleDimDefined(w, child, axis) THEN [size |-> c.availableInnerCrossDim, mode |-> "AtMost"] ELSE [size |-> FAdd(w.style[child].dimensions[dim(axis)], getMarginAxis(w, child, axis)), mode |-> "Exactly"]

\* Lines 1576-1615: the constraint of the child on the cross axis.
CrossConstraint(w, c, child, axis, mode) == IF ~CSSValueIsUndefined(c.availableInnerCrossDim) /\ ~isStyleDimDefined(w, child, axis) /\ mode = "Exactly" /\ getAlignItem(w, c.node, child) = "Stretch" THEN [size |-> c.availableInnerCrossDim, mode |-> "Exactly"] ELSE IF ~isStyleDimDefined(w, child, axis) THEN [size |-> c.availableInnerCrossDim, mode |-> IF CSSValueIsUndefined(c.availableInnerCrossDim) THEN "Undefined" ELSE "AtMost"] ELSE [size |-> FAdd(w.style[child].dimensions[dim(axis)], getMarginAxis(w, child, axis)), mode |-> "Exactly"]

FlexChild(w, c, child, updatedMainSize) ==
  LET cross == IF c.isMainAxisRow THEN CrossConstraint(w, c, child, "Column", c.heightMeasureMode) ELSE CrossConstraint(w, c, child, "Row", c.widthMeasureMode)
      requiresStretchLayout == ~isStyleDimDefined(w, child, c.crossAxis) /\ getAlignItem(w, c.node, child) = "Stretch"
  IN IF c.isMainAxisRow
     THEN layoutNodeInternal(w, child, FAdd(updatedMainSize, getMarginAxis(w, child, "Row")), cross.size, c.direction, "Exactly", cross.mode, c.performLayout /\ ~requiresStretchLayout, "flex")
     ELSE layoutNodeInternal(w, child, cross.size, FAdd(updatedMainSize, getMarginAxis(w, child, "Column")), c.direction, cross.mode, "Exactly", c.performLayout /\ ~requiresStretchLayout, "flex")

RECURSIVE SecondPass(_, _, _, _, _)
\* Lines 1569 and 1632: the next child is read after the child was laid out.
SecondPassNext(w1, q, c, f, child, fuel, updatedMainSize) == SecondPass([w |-> w1, deltaFreeSpace |-> FSub(q.deltaFreeSpace, FSub(updatedMainSize, q.w.layout[child].computedFlexBasis))], c, f, w1.nextChild[child], fuel - 1)

\* Lines 1571-1630: the child is laid out with its main size.
SecondPassChild(q, c, f, child, fuel, updatedMainSize) == SecondPassNext(FlexChild(q.w, c, child, updatedMainSize), q, c, f, child, fuel, updatedMainSize)

\* Lines 1536-1633: the second pass.  q = [w, deltaFreeSpace]
SecondPass(q, c, f, currentRelativeChild, fuel) == IF Broken(q.w) \/ currentRelativeChild = NULL THEN q ELSE IF fuel = 0 THEN [q EXCEPT !.w = Cut(q.w)] ELSE SecondPassChild(q, c, f, currentRelativeChild, fuel, UpdatedMainSize(q.w, c, f, currentRelativeChild))

(***************************************************************************)
(* Steps 5 to 7: one flex line.                                            *)
(***************************************************************************)
\* Lines 1529-1531: the totals the second pass distributes.
Frozen(t, originalRemainingFreeSpace, p) == [remainingFreeSpace |-> FAdd(originalRemainingFreeSpace, p.deltaFreeSpace), totalFlexShrinkScaledFactors |-> FAdd(t.totalFlexShrinkScaledFactors, p.deltaFlexShrinkScaledFactors), totalFlexGrowFactors |-> FAdd(t.totalFlexGrowFactors, p.deltaFlexGrowFactors)]

\* Line 1636.
Distributed(originalRemainingFreeSpace, q) == [w |-> q.w, remainingFreeSpace |-> FAdd(originalRemainingFreeSpace, q.deltaFreeSpace)]

\* Lines 1534-1636.
BothPasses(c, t, originalRemainingFreeSpace, f) == Distributed(originalRemainingFreeSpace, SecondPass([w |-> t.w, deltaFreeSpace |-> 0], c, f, t.firstRelativeChild, 2 * NumNodes))

\* Lines 1446-1636: skipped when canSkipFlex.
Flexible(c, t, canSkipFlex, originalRemainingFreeSpace) == IF canSkipFlex THEN [w |-> t.w, remainingFreeSpace |-> originalRemainingFreeSpace] ELSE BothPasses(c, t, originalRemainingFreeSpace, Frozen(t, originalRemainingFreeSpace, FirstPass(t.w, c, t, originalRemainingFreeSpace, t.firstRelativeChild, [deltaFreeSpace |-> 0, deltaFlexShrinkScaledFactors |-> 0, deltaFlexGrowFactors |-> 0], t.itemsOnLine)))

\* Lines 1432-1636: both passes.  The result is [w, remainingFreeSpace].
ResolveFlexibleLengths(c, t, canSkipFlex) == Flexible(c, t, canSkipFlex, InitialFreeSpace(c, t))

\* Lines 1650-1659.
MinRemainingFreeSpace(w, c, remainingFreeSpace) == IF c.measureModeMainDim = "AtMost" /\ FGt(remainingFreeSpace, 0) THEN (IF ~CSSValueIsUndefined(w.style[c.node].minDimensions[dim(c.mainAxis)]) /\ FGe(w.style[c.node].minDimensions[dim(c.mainAxis)], 0) THEN fmaxf(0, FSub(w.style[c.node].minDimensions[dim(c.mainAxis)], FSub(c.availableInnerMainDim, remainingFreeSpace))) ELSE 0) ELSE remainingFreeSpace

\* A Justify that hands SpaceBetween the gaps of SpaceAround.
JustifyAround(justifyContent, remainingFreeSpace, itemsOnLine) == IF justifyContent \in {"SpaceBetween", "SpaceAround"} THEN [leadingMainDim |-> FDiv(FDiv(remainingFreeSpace, itemsOnLine), 2), betweenMainDim |-> FDiv(remainingFreeSpace, itemsOnLine)] ELSE [leadingMainDim |-> IF justifyContent = "Center" THEN FDiv(remainingFreeSpace, 2) ELSE IF justifyContent = "FlexEnd" THEN remainingFreeSpace ELSE 0, betweenMainDim |-> 0]

\* Lines 1661-1682: the switch on justifyContent.
Justify(justifyContent, remainingFreeSpace, itemsOnLine) == CASE justifyContent = "Center" -> [leadingMainDim |-> FDiv(remainingFreeSpace, 2), betweenMainDim |-> 0] [] justifyContent = "FlexEnd" -> [leadingMainDim |-> remainingFreeSpace, betweenMainDim |-> 0] [] justifyContent = "SpaceBetween" -> [leadingMainDim |-> 0, betweenMainDim |-> IF itemsOnLine > 1 THEN FDiv(fmaxf(remainingFreeSpace, 0), itemsOnLine - 1) ELSE 0] [] justifyContent = "SpaceAround" -> [leadingMainDim |-> FDiv(FDiv(remainingFreeSpace, itemsOnLine), 2), betweenMainDim |-> FDiv(remainingFreeSpace, itemsOnLine)] [] justifyContent = "FlexStart" -> [leadingMainDim |-> 0, betweenMainDim |-> 0]

\* A PlaceChild that advances the main position past absolute children too.
PlaceChildInFlow(r, c, child, canSkipFlex, betweenMainDim) == IF canSkipFlex THEN [w |-> r.w, mainDim |-> FAdd(r.mainDim, FAdd(FAdd(betweenMainDim, getMarginAxis(r.w, child, c.mainAxis)), r.w.layout[child].computedFlexBasis)), crossDim |-> c.availableInnerCrossDim] ELSE [w |-> IF c.performLayout THEN SetLayoutPosition(r.w, child, pos(c.mainAxis), FAdd(r.w.layout[child].position[pos(c.mainAxis)], r.mainDim)) ELSE r.w, mainDim |-> FAdd(r.mainDim, FAdd(betweenMainDim, fmaxf(r.w.style[child].dimensions[dim(c.mainAxis)], getDimWithMargin(r.w, child, c.mainAxis)))), crossDim |-> fmaxf(r.crossDim, getDimWithMargin(r.w, child, c.crossAxis))]

\* Lines 1687-1730.  r = [w, mainDim, crossDim]
PlaceChild(r, c, child, canSkipFlex, betweenMainDim) ==
  LET w1 == IF c.performLayout THEN SetLayoutPosition(r.w, child, pos(c.mainAxis), FAdd(r.w.layout[child].position[pos(c.mainAxis)], r.mainDim)) ELSE r.w
  IN IF r.w.style[child].positionType = "Absolute" /\ isLeadingPosDefined(r.w, child, c.mainAxis)
     THEN (IF c.performLayout THEN [r EXCEPT !.w = SetLayoutPosition(r.w, child, pos(c.mainAxis), FAdd(FAdd(getLeadingPosition(r.w, child, c.mainAxis), getLeadingBorder(r.w, c.node, c.mainAxis)), getLeadingMargin(r.w, child, c.mainAxis)))] ELSE r)
     ELSE IF r.w.style[child].positionType # "Relative" THEN [r EXCEPT !.w = w1]
     ELSE IF canSkipFlex THEN [w |-> w1, mainDim |-> FAdd(r.mainDim, FAdd(FAdd(betweenMainDim, getMarginAxis(w1, child, c.mainAxis)), w1.layout[child].computedFlexBasis)), crossDim |-> c.availableInnerCrossDim]
     ELSE [w |-> w1, mainDim |-> FAdd(r.mainDim, FAdd(betweenMainDim, getDimWithMargin(w1, child, c.mainAxis))), crossDim |-> fmaxf(r.crossDim, getDimWithMargin(w1, child, c.crossAxis))]

RECURSIVE PlaceLoop(_, _, _, _, _, _)
PlaceLoop(r, c, i, endOfLineIndex, canSkipFlex, betweenMainDim) == IF i >= endOfLineIndex THEN r ELSE PlaceLoop(PlaceChild(r, c, CSSNodeGetChild(r.w, c.node, i), canSkipFlex, betweenMainDim), c, i + 1, endOfLineIndex, canSkipFlex, betweenMainDim)

\* Lines 1734-1744.
ContainerCrossAxis(w, c, crossDim) == IF c.measureModeCrossDim = "Undefined" THEN FSub(boundAxis(w, c.node, c.crossAxis, FAdd(crossDim, c.paddingAndBorderAxisCross)), c.paddingAndBorderAxisCross) ELSE IF c.measureModeCrossDim = "AtMost" THEN fminf(FSub(boundAxis(w, c.node, c.crossAxis, FAdd(crossDim, c.paddingAndBorderAxisCross)), c.paddingAndBorderAxisCross), c.availableInnerCrossDim) ELSE c.availableInnerCrossDim

\* Lines 1747-1753.
LineCrossDim(w, c, crossDim) == FSub(boundAxis(w, c.node, c.crossAxis, FAdd(IF ~c.isNodeFlexWrap /\ c.measureModeCrossDim = "Exactly" THEN c.availableInnerCrossDim ELSE crossDim, c.paddingAndBorderAxisCross)), c.paddingAndBorderAxisCross)

\* Lines 1786-1821: the stretch pass of one child.
StretchChild(w, c, child, crossDim) ==
  LET childWidth == IF c.isMainAxisRow THEN FAdd(w.layout[child].measuredDimensions["Width"], getMarginAxis(w, child, "Row")) ELSE crossDim
      childHeight == IF c.isMainAxisRow THEN crossDim ELSE FAdd(w.layout[child].measuredDimensions["Height"], getMarginAxis(w, child, "Column"))
      isCrossSizeDefinite == (c.isMainAxisRow /\ isStyleDimDefined(w, child, "Column")) \/ (~c.isMainAxisRow /\ isStyleDimDefined(w, child, "Row"))
  IN IF isCrossSizeDefinite THEN w ELSE layoutNodeInternal(w, child, childWidth, childHeight, c.direction, IF CSSValueIsUndefined(childWidth) THEN "Undefined" ELSE "Exactly", IF CSSValueIsUndefined(childHeight) THEN "Undefined" ELSE "Exactly", TRUE, "stretch")

\* A LeadingCrossDim that starts every child at the far edge of the line.
LeadingCrossDimFar(w, c, child, alignItem, containerCrossAxis) == FAdd(c.leadingPaddingAndBorderCross, containerCrossAxis)

\* Lines 1775-1830.
LeadingCrossDim(w, c, child, alignItem, containerCrossAxis) == IF alignItem = "Stretch" \/ alignItem = "FlexStart" THEN c.leadingPaddingAndBorderCross ELSE IF alignItem = "Center" THEN FAdd(c.leadingPaddingAndBorderCross, FDiv(FSub(containerCrossAxis, getDimWithMargin(w, child, c.crossAxis)), 2)) ELSE FAdd(c.leadingPaddingAndBorderCross, FSub(containerCrossAxis, getDimWithMargin(w, child, c.crossAxis)))

\* Lines 1775-1833: the child takes its place; w1 is the memory after the
\* stretch pass.
AlignRelative(w1, c, child, containerCrossAxis, totalLineCrossDim) == IF Broken(w1) THEN w1 ELSE SetLayoutPosition(w1, child, pos(c.crossAxis), FAdd(w1.layout[child].position[pos(c.crossAxis)], FAdd(totalLineCrossDim, LeadingCrossDim(w1, c, child, getAlignItem(w1, c.node, child), containerCrossAxis))))

\* Lines 1759-1834: the alignment of one child on the cross axis.
AlignChild(w, c, child, crossDim, containerCrossAxis, totalLineCrossDim) ==
  IF w.style[child].positionType = "Absolute"
  THEN (IF isLeadingPosDefined(w, child, c.crossAxis) THEN SetLayoutPosition(w, child, pos(c.crossAxis), FAdd(FAdd(getLeadingPosition(w, child, c.crossAxis), getLeadingBorder(w, c.node, c.crossAxis)), getLeadingMargin(w, child, c.crossAxis))) ELSE SetLayoutPosition(w, child, pos(c.crossAxis), FAdd(c.leadingPaddingAndBorderCross, getLeadingMargin(w, child, c.crossAxis))))
  ELSE AlignRelative(IF getAlignItem(w, c.node, child) = "Stretch" THEN StretchChild(w, c, child, crossDim) ELSE w, c, child, containerCrossAxis, totalLineCrossDim)

RECURSIVE AlignLoop(_, _, _, _, _, _, _)
AlignLoop(w, c, i, endOfLineIndex, crossDim, containerCrossAxis, totalLineCrossDim) == IF Broken(w) \/ i >= endOfLineIndex THEN w ELSE AlignLoop(AlignChild(w, c, CSSNodeGetChild(w, c.node, i), crossDim, containerCrossAxis, totalLineCrossDim), c, i + 1, endOfLineIndex, crossDim, containerCrossAxis, totalLineCrossDim)

\* Lines 1355 and 1838-1840: the line is done.
LineDone(s, c, t, r, crossDim, w7) == IF Broken(w7) THEN [s EXCEPT !.w = w7] ELSE [w |-> w7, startOfLineIndex |-> t.endOfLineIndex, endOfLineIndex |-> t.endOfLineIndex, lineCount |-> s.lineCount + 1, totalLineCrossDim |-> FAdd(s.totalLineCrossDim, crossDim), maxLineMainDim |-> fmaxf(s.maxLineMainDim, FAdd(r.mainDim, c.trailingPaddingAndBorderMain))]

\* Lines 1734-1836: step 7.
AlignLine(s, c, t, r, crossDim) == LineDone(s, c, t, r, crossDim, IF c.performLayout THEN AlignLoop(r.w, c, s.startOfLineIndex, t.endOfLineIndex, crossDim, ContainerCrossAxis(r.w, c, r.crossDim), s.totalLineCrossDim) ELSE r.w)

\* Lines 1747-1753.
Placed(s, c, t, r) == AlignLine(s, c, t, r, LineCrossDim(r.w, c, r.crossDim))

\* Lines 1684-1730: step 6, the loop.
PlaceLine(s, c, t, canSkipFlex, flexed, j) == Placed(s, c, t, PlaceLoop([w |-> flexed.w, mainDim |-> FAdd(c.leadingPaddingAndBorderMain, j.leadingMainDim), crossDim |-> 0], c, s.startOfLineIndex, t.endOfLineIndex, canSkipFlex, j.betweenMainDim))

\* Lines 1667-1677: the numbers the free space of a line is divided by.
Divisors(justifyContent, itemsOnLine) == IF justifyContent = "SpaceAround" THEN {itemsOnLine} ELSE IF justifyContent = "SpaceBetween" /\ itemsOnLine > 1 THEN {itemsOnLine - 1} ELSE {}

\* The probe keeps each division of the call.
NoteDivisor(w, node, justifyContent, itemsOnLine) == [w EXCEPT !.probe.divisors = @ \cup {[node |-> node, justifyContent |-> justifyContent, divisor |-> d] : d \in Divisors(justifyContent, itemsOnLine)}]

\* Lines 1638-1682: step 6, the leading and the between space.
JustifyLine(s, c, t, canSkipFlex, flexed) == IF Broken(flexed.w) THEN [s EXCEPT !.w = flexed.w] ELSE PlaceLine(s, c, t, canSkipFlex, [flexed EXCEPT !.w = NoteDivisor(@, c.node, c.justifyContent, t.itemsOnLine)], Justify(c.justifyContent, MinRemainingFreeSpace(flexed.w, c, flexed.remainingFreeSpace), t.itemsOnLine))

\* Lines 1428-1636: step 5.
FlexibleLine(s, c, t, canSkipFlex) == JustifyLine(s, c, t, canSkipFlex, ResolveFlexibleLengths(c, t, canSkipFlex))

\* Lines 1355-1840: one turn of the loop over the lines.
\* s = [w, startOfLineIndex, endOfLineIndex, lineCount, totalLineCrossDim, maxLineMainDim]
FlexLine(s, c) == FlexibleLine(s, c, CollectLine(NewLine(s.w, s.startOfLineIndex), c, s.startOfLineIndex, s.lineCount), ~c.performLayout /\ c.measureModeCrossDim = "Exactly")

RECURSIVE LineLoop(_, _)
LineLoop(s, c) == IF Broken(s.w) \/ s.endOfLineIndex >= c.childCount THEN s ELSE LineLoop(FlexLine(s, c), c)

(***************************************************************************)
(* Steps 8 to 11.                                                          *)
(***************************************************************************)
\* Lines 1873-1888: the height of line i and the index after its last child.
RECURSIVE LineExtent(_, _, _, _, _)
LineExtent(w, c, i, ii, lineHeight) ==
  IF ii >= c.childCount THEN [endIndex |-> ii, lineHeight |-> lineHeight]
  ELSE IF w.style[CSSNodeGetChild(w, c.node, ii)].positionType # "Relative" THEN LineExtent(w, c, i, ii + 1, lineHeight)
  ELSE IF w.lineIndex[CSSNodeGetChild(w, c.node, ii)] # i THEN [endIndex |-> ii, lineHeight |-> lineHeight]
  ELSE IF isLayoutDimDefined(w, CSSNodeGetChild(w, c.node, ii), c.crossAxis) THEN LineExtent(w, c, i, ii + 1, fmaxf(lineHeight, FAdd(w.layout[CSSNodeGetChild(w, c.node, ii)].measuredDimensions[dim(c.crossAxis)], getMarginAxis(w, CSSNodeGetChild(w, c.node, ii), c.crossAxis))))
  ELSE LineExtent(w, c, i, ii + 1, lineHeight)

\* Lines 1895-1924: the switch on the alignment of a child of the line.
ContentAlignChild(w, c, child, currentLead, lineHeight) ==
  LET alignItem == getAlignItem(w, c.node, child)
  IN IF w.style[child].positionType # "Relative" \/ alignItem = "Auto" THEN w
     ELSE IF alignItem = "FlexStart" \/ alignItem = "Stretch" THEN SetLayoutPosition(w, child, pos(c.crossAxis), FAdd(currentLead, getLeadingMargin(w, child, c.crossAxis)))
     ELSE IF alignItem = "FlexEnd" THEN SetLayoutPosition(w, child, pos(c.crossAxis), FSub(FSub(FAdd(currentLead, lineHeight), getTrailingMargin(w, child, c.crossAxis)), w.layout[child].measuredDimensions[dim(c.crossAxis)]))
     ELSE SetLayoutPosition(w, child, pos(c.crossAxis), FAdd(currentLead, FDiv(FSub(lineHeight, w.layout[child].measuredDimensions[dim(c.crossAxis)]), 2)))

RECURSIVE ContentAlignLoop(_, _, _, _, _, _)
ContentAlignLoop(w, c, ii, endIndex, currentLead, lineHeight) == IF ii >= endIndex THEN w ELSE ContentAlignLoop(ContentAlignChild(w, c, CSSNodeGetChild(w, c.node, ii), currentLead, lineHeight), c, ii + 1, endIndex, currentLead, lineHeight)

\* Lines 1867-1929: the loop over the lines.
RECURSIVE MultiLineLoop(_, _, _, _, _, _, _)
MultiLineLoop(w, c, i, lineCount, endIndex, currentLead, crossDimLead) ==
  IF i >= lineCount THEN w
  ELSE LET e == LineExtent(w, c, i, endIndex, 0)
           lineHeight == FAdd(e.lineHeight, crossDimLead)
       IN MultiLineLoop(ContentAlignLoop(w, c, endIndex, e.endIndex, currentLead, lineHeight), c, i + 1, lineCount, e.endIndex, FAdd(currentLead, lineHeight), crossDimLead)

\* Lines 1843-1930.
MultiLineContentAlignment(w, c, lineCount, totalLineCrossDim) ==
  LET remainingAlignContentDim == FSub(c.availableInnerCrossDim, totalLineCrossDim)
      alignContent == w.style[c.node].alignContent
      crossDimLead == IF alignContent = "Stretch" /\ FGt(c.availableInnerCrossDim, totalLineCrossDim) THEN FDiv(remainingAlignContentDim, lineCount) ELSE 0
      currentLead == IF alignContent = "FlexEnd" THEN FAdd(c.leadingPaddingAndBorderCross, remainingAlignContentDim) ELSE IF alignContent = "Center" THEN FAdd(c.leadingPaddingAndBorderCross, FDiv(remainingAlignContentDim, 2)) ELSE c.leadingPaddingAndBorderCross
  IN IF lineCount > 1 /\ c.performLayout /\ ~CSSValueIsUndefined(c.availableInnerCrossDim) THEN MultiLineLoop(w, c, 0, lineCount, 0, currentLead, crossDimLead) ELSE w

\* Lines 1940-1963: the size of the node on one axis, from its content.
ContentDimension(w, c, axis, mode, availableInner, paddingAndBorder, content, fromAvailable) == IF mode = "Undefined" THEN boundAxis(w, c.node, axis, content) ELSE IF mode = "AtMost" THEN fmaxf(fminf(FAdd(availableInner, paddingAndBorder), boundAxisWithinMinAndMax(w, c.node, axis, content)), paddingAndBorder) ELSE fromAvailable

\* Lines 1950-1963.
CrossDimension(w2, c, totalLineCrossDim) == SetMeasuredDimension(w2, c.node, dim(c.crossAxis), ContentDimension(w2, c, c.crossAxis, c.measureModeCrossDim, c.availableInnerCrossDim, c.paddingAndBorderAxisCross, FAdd(totalLineCrossDim, c.paddingAndBorderAxisCross), w2.layout[c.node].measuredDimensions[dim(c.crossAxis)]))

\* Lines 1938-1948.
MainDimension(w1, c, maxLineMainDim) == SetMeasuredDimension(w1, c.node, dim(c.mainAxis), ContentDimension(w1, c, c.mainAxis, c.measureModeMainDim, c.availableInnerMainDim, c.paddingAndBorderAxisMain, maxLineMainDim, w1.layout[c.node].measuredDimensions[dim(c.mainAxis)]))

\* Lines 1933-1963: step 9.
FinalDimensions(w, c, maxLineMainDim, totalLineCrossDim) == CrossDimension(MainDimension(SetMeasuredDimensions(w, c.node, boundAxis(w, c.node, "Row", FSub(c.availableWidth, c.marginAxisRow)), boundAxis(w, c.node, "Column", FSub(c.availableHeight, c.marginAxisColumn))), c, maxLineMainDim), c, totalLineCrossDim)

RECURSIVE AbsoluteLoop(_, _, _, _)
\* Line 1970: the next child is read after the child was laid out.
AbsoluteNext(w1, c, child, fuel) == AbsoluteLoop(w1, c, w1.nextChild[child], fuel - 1)

\* Lines 1967-1971: step 10, the loop.
AbsoluteLoop(w, c, currentAbsoluteChild, fuel) == IF Broken(w) \/ currentAbsoluteChild = NULL THEN w ELSE IF fuel = 0 THEN Cut(w) ELSE AbsoluteNext(absoluteLayoutChild(w, c.node, currentAbsoluteChild, c.availableInnerWidth, c.widthMeasureMode, c.direction), c, currentAbsoluteChild, fuel)

\* The enumerators of CSSFlexDirection as the integers they are.
FlexDirectionValue == [Column |-> 0, ColumnReverse |-> 1, Row |-> 2, RowReverse |-> 3]

\* Lines 1974-1977; the second one tests the enumerator itself.
needsMainTrailingPos(mainAxis) == mainAxis = "RowReverse" \/ mainAxis = "ColumnReverse"

needsCrossTrailingPos(crossAxis) == FlexDirectionValue["RowReverse"] # 0 \/ crossAxis = "ColumnReverse"

\* Lines 1980-1992.
RECURSIVE TrailingLoop(_, _, _)
TrailingLoop(w, c, i) ==
  IF i >= c.childCount \/ ~(needsMainTrailingPos(c.mainAxis) \/ needsCrossTrailingPos(c.crossAxis)) THEN w
  ELSE LET child == CSSNodeGetChild(w, c.node, i)
           w1 == IF needsMainTrailingPos(c.mainAxis) THEN setTrailingPosition(w, c.node, child, c.mainAxis) ELSE w
       IN TrailingLoop(IF needsCrossTrailingPos(c.crossAxis) THEN setTrailingPosition(w1, c.node, child, c.crossAxis) ELSE w1, c, i + 1)

\* Lines 1974-1992: step 11.
Trailing(w10, c) == IF Broken(w10) THEN w10 ELSE TrailingLoop(w10, c, 0)

\* Lines 1965-1971: step 10.
Absolutes(w9, c, firstAbsoluteChild) == IF ~c.performLayout THEN w9 ELSE Trailing(AbsoluteLoop(w9, c, firstAbsoluteChild, 2 * NumNodes), c)

\* Lines 1843-1963: steps 8 and 9.
Lines(lines, c, firstAbsoluteChild) == IF Broken(lines.w) THEN lines.w ELSE Absolutes(FinalDimensions(MultiLineContentAlignment(lines.w, c, lines.lineCount, lines.totalLineCrossDim), c, lines.maxLineMainDim, lines.totalLineCrossDim), c, firstAbsoluteChild)

\* Lines 1340-1840: steps 4 to 7.
FlexBases(s3, c) == IF Broken(s3.w) THEN s3.w ELSE Lines(LineLoop([w |-> s3.w, startOfLineIndex |-> 0, endOfLineIndex |-> 0, lineCount |-> 0, totalLineCrossDim |-> 0, maxLineMainDim |-> 0], c), c, s3.firstAbsoluteChild)

\* Lines 1281-1993: steps 3 to 11.
FlexLayout(w, c) == FlexBases(FlexBasisLoop([w |-> w, firstAbsoluteChild |-> NULL, currentAbsoluteChild |-> NULL], c, 0), c)

ImplEnter(w, node, availableWidth, availableHeight, widthMeasureMode, heightMeasureMode, performLayout, direction) == [w EXCEPT !.layout[node].direction = direction, !.probe.ran = Append(@, [node |-> node, performLayout |-> performLayout]), !.probe.asserted = @ \/ (CSSValueIsUndefined(availableWidth) /\ widthMeasureMode # "Undefined") \/ (CSSValueIsUndefined(availableHeight) /\ heightMeasureMode # "Undefined")]

ImplBody(w0, a) ==
  CASE a.childCount = 0 /\ w0.measure[a.node] # NULL -> MeasureLeaf(w0, a)
    [] a.childCount = 0 /\ w0.measure[a.node] = NULL -> NoChildren(w0, a)
    [] a.childCount # 0 /\ CanShortcut(a) -> Shortcut(w0, a)
    [] OTHER -> FlexLayout(w0, ImplContext(w0, a))

layoutNodeImpl(w, node, availableWidth, availableHeight, parentDirection, widthMeasureMode, heightMeasureMode, performLayout) == ImplBody(ImplEnter(w, node, availableWidth, availableHeight, widthMeasureMode, heightMeasureMode, performLayout, resolveDirection(w, node, parentDirection)), ImplArgs(w, node, availableWidth, availableHeight, parentDirection, widthMeasureMode, heightMeasureMode, performLayout))

(***************************************************************************)
(* layoutNodeInternal and CSSNodeCalculateLayout.                          *)
(***************************************************************************)
Invalidate(w, node) == [w EXCEPT !.layout[node].nextCachedMeasurementsIndex = 0, !.layout[node].cachedLayout.widthMeasureMode = Invalid, !.layout[node].cachedLayout.heightMeasureMode = Invalid]

\* The entry a cache hit is served from is noted.
Served(w, entry) == [w EXCEPT !.probe.stale = @ \/ entry.widthMeasureMode = Invalid \/ entry.heightMeasureMode = Invalid]

\* FinishLayout without the test of performLayout at line 2288.
FinishLayoutAlways(w, node, performLayout, returned) == [w EXCEPT !.layout[node].dimensions = w.layout[node].measuredDimensions, !.hasNewLayout[node] = TRUE, !.isDirty[node] = FALSE, !.gDepth = @ - 1, !.layout[node].generationCount = w.gCurrentGenerationCount, !.active = SubSeq(@, 1, Len(@) - 1), !.returned = returned]

\* Lines 2288-2298.
FinishLayout(w, node, performLayout, returned) == IF performLayout THEN [w EXCEPT !.layout[node].dimensions = w.layout[node].measuredDimensions, !.hasNewLayout[node] = TRUE, !.isDirty[node] = FALSE, !.gDepth = @ - 1, !.layout[node].generationCount = w.gCurrentGenerationCount, !.active = SubSeq(@, 1, Len(@) - 1), !.returned = returned] ELSE [w EXCEPT !.gDepth = @ - 1, !.layout[node].generationCount = w.gCurrentGenerationCount, !.active = SubSeq(@, 1, Len(@) - 1), !.returned = returned]

\* What a call of layoutNodeInternal reads and writes, apart from gDepth
\* (which only indents the log): the nodes and the generation count.
Memory(w) == [parent |-> w.parent, children |-> w.children, style |-> w.style, layout |-> w.layout, lineIndex |-> w.lineIndex, hasNewLayout |-> w.hasNewLayout, isTextNode |-> w.isTextNode, isDirty |-> w.isDirty, nextChild |-> w.nextChild, measure |-> w.measure, gCurrentGenerationCount |-> w.gCurrentGenerationCount]

\* A call on the stack: its arguments and the memory it started from.  The
\* function is deterministic, so a call that meets its own frame on the
\* stack repeats it for ever.
Frame(w, node, availableWidth, availableHeight, parentDirection, widthMeasureMode, heightMeasureMode, performLayout) == [node |-> node, availableWidth |-> availableWidth, availableHeight |-> availableHeight, parentDirection |-> parentDirection, widthMeasureMode |-> widthMeasureMode, heightMeasureMode |-> heightMeasureMode, performLayout |-> performLayout, memory |-> Memory(w)]

ModeMismatch(available, mode) == CSSValueIsUndefined(available) # (mode = "Undefined")

\* Lines 2259-2285: the result of layoutNodeImpl is kept.
Computed(w2, node, availableWidth, availableHeight, parentDirection, widthMeasureMode, heightMeasureMode, performLayout, needToVisitNode, cachedResults) == IF Broken(w2) THEN w2 ELSE IF cachedResults = NoCachedResults THEN FinishLayout(StoreCacheEntry([w2 EXCEPT !.layout[node].lastParentDirection = parentDirection], node, availableWidth, availableHeight, widthMeasureMode, heightMeasureMode, performLayout), node, performLayout, TRUE) ELSE FinishLayout([w2 EXCEPT !.layout[node].lastParentDirection = parentDirection], node, performLayout, needToVisitNode)

\* Lines 2206-2286: the result comes from the cache (the node needs no visit
\* and an entry matches) or from layoutNodeImpl, whose result is stored in a
\* fresh entry when none matched.
LayoutResult(w1, node, availableWidth, availableHeight, parentDirection, widthMeasureMode, heightMeasureMode, performLayout, needToVisitNode, cachedResults) == IF ~needToVisitNode /\ cachedResults # NoCachedResults THEN FinishLayout(SetMeasuredDimensions(Served(w1, CachedEntry(w1, node, cachedResults)), node, CachedEntry(w1, node, cachedResults).computedWidth, CachedEntry(w1, node, cachedResults).computedHeight), node, performLayout, FALSE) ELSE Computed(layoutNodeImpl(w1, node, availableWidth, availableHeight, parentDirection, widthMeasureMode, heightMeasureMode, performLayout), node, availableWidth, availableHeight, parentDirection, widthMeasureMode, heightMeasureMode, performLayout, needToVisitNode, cachedResults)

\* Lines 2143-2204: the cache is searched.
Visit(w1, node, availableWidth, availableHeight, parentDirection, widthMeasureMode, heightMeasureMode, performLayout, needToVisitNode) == LayoutResult(w1, node, availableWidth, availableHeight, parentDirection, widthMeasureMode, heightMeasureMode, performLayout, needToVisitNode, CacheLookup(w1, node, availableWidth, availableHeight, widthMeasureMode, heightMeasureMode, performLayout))

Enter(w, frame, reason) == [w EXCEPT !.gDepth = @ + 1, !.active = Append(@, frame), !.probe.reasons = @ \cup {reason}, !.probe.mismatch = @ \/ ModeMismatch(frame.availableWidth, frame.widthMeasureMode) \/ ModeMismatch(frame.availableHeight, frame.heightMeasureMode)]

NeedToVisitNode(w, node, parentDirection) == (w.isDirty[node] /\ w.layout[node].generationCount # w.gCurrentGenerationCount) \/ w.layout[node].lastParentDirection # parentDirection

Entered(w0, node, availableWidth, availableHeight, parentDirection, widthMeasureMode, heightMeasureMode, performLayout, needToVisitNode) == Visit(IF needToVisitNode THEN Invalidate(w0, node) ELSE w0, node, availableWidth, availableHeight, parentDirection, widthMeasureMode, heightMeasureMode, performLayout, needToVisitNode)

Recursing(w, frame) == \E i \in 1 .. Len(w.active) : w.active[i] = frame

Guarded(w, frame, reason) ==
  CASE Broken(w) -> w
    [] ~Broken(w) /\ Recursing(w, frame) -> Diverge(w)
    [] ~Broken(w) /\ ~Recursing(w, frame) /\ w.gDepth >= MaxDepth -> Cut(w)
    [] OTHER -> Entered(Enter(w, frame, reason), frame.node, frame.availableWidth, frame.availableHeight, frame.parentDirection, frame.widthMeasureMode, frame.heightMeasureMode, frame.performLayout, NeedToVisitNode(w, frame.node, frame.parentDirection))

layoutNodeInternal(w, node, availableWidth, availableHeight, parentDirection, widthMeasureMode, heightMeasureMode, performLayout, reason) == Guarded(w, Frame(w, node, availableWidth, availableHeight, parentDirection, widthMeasureMode, heightMeasureMode, performLayout), reason)

\* Lines 2312-2337: the constraint of the root on one axis.
RootConstraint(w, node, available, axis) == IF ~CSSValueIsUndefined(available) THEN [size |-> available, mode |-> "Exactly"] ELSE IF isStyleDimDefined(w, node, axis) THEN [size |-> FAdd(w.style[node].dimensions[dim(axis)], getMarginAxis(w, node, axis)), mode |-> "Exactly"] ELSE IF FGe(w.style[node].maxDimensions[dim(axis)], 0) THEN [size |-> w.style[node].maxDimensions[dim(axis)], mode |-> "AtMost"] ELSE [size |-> available, mode |-> "Undefined"]

\* Lines 2339-2348.
RootPosition(w1, node) == IF Broken(w1) THEN w1 ELSE IF w1.returned THEN setPosition(w1, node, w1.layout[node].direction) ELSE w1

RootLayout(w0, node, availableWidth, availableHeight, parentDirection, width, height) == RootPosition(layoutNodeInternal(w0, node, width.size, height.size, parentDirection, width.mode, height.mode, TRUE, "initial"), node)

NextGeneration(w) == [w EXCEPT !.gCurrentGenerationCount = @ + 1]

CSSNodeCalculateLayout(w, node, availableWidth, availableHeight, parentDirection) == RootLayout(NextGeneration(w), node, availableWidth, availableHeight, parentDirection, RootConstraint(w, node, availableWidth, "Row"), RootConstraint(w, node, availableHeight, "Column"))

(***************************************************************************)
(* The variables as one memory, and back.                                  *)
(***************************************************************************)
W == [parent |-> parent, children |-> children, style |-> style, layout |-> layout, lineIndex |-> lineIndex, hasNewLayout |-> hasNewLayout, isTextNode |-> isTextNode, isDirty |-> isDirty, nextChild |-> nextChild, measure |-> measure, gCurrentGenerationCount |-> gCurrentGenerationCount, gDepth |-> gDepth, gNodeInstanceCount |-> gNodeInstanceCount, heap |-> heap, probe |-> probe, active |-> <<>>, returned |-> FALSE, broken |-> FALSE]

Commit(w) ==
  /\ parent' = w.parent
  /\ children' = w.children
  /\ style' = w.style
  /\ layout' = w.layout
  /\ lineIndex' = w.lineIndex
  /\ hasNewLayout' = w.hasNewLayout
  /\ isTextNode' = w.isTextNode
  /\ isDirty' = w.isDirty
  /\ nextChild' = w.nextChild
  /\ measure' = w.measure
  /\ gCurrentGenerationCount' = w.gCurrentGenerationCount
  /\ gDepth' = w.gDepth
  /\ gNodeInstanceCount' = w.gNodeInstanceCount
  /\ heap' = w.heap
  /\ probe' = w.probe

\* A failed CSS_ASSERT aborts the program, and a call that does not return
\* leaves nothing to call.
Alive == ~probe.overflow /\ ~probe.diverged /\ ~probe.asserted

(***************************************************************************)
(* The host.  A call is a record [op, node, a]: the function, the node it  *)
(* is called on and the other arguments.  Apply is the call on a memory;   *)
(* it also notes the call in probe (for a style setter, whether the field  *)
(* held the value already).                                                *)
(***************************************************************************)
Ins(node, child, index) == [op |-> "InsertChild", node |-> node, a |-> <<child, index>>]

Rem(node, child) == [op |-> "RemoveChild", node |-> node, a |-> <<child>>]

Dirty(node) == [op |-> "MarkDirty", node |-> node, a |-> <<>>]

Enum(node, instanceName, paramName) == [op |-> "StyleSetEnum", node |-> node, a |-> <<instanceName, paramName>>]

Float(node, instanceName, paramName) == [op |-> "StyleSetFloat", node |-> node, a |-> <<instanceName, paramName>>]

Dim(node, instanceName, d, paramName) == [op |-> "StyleSetDimension", node |-> node, a |-> <<instanceName, d, paramName>>]

Edge(node, instanceName, edge, paramName) == [op |-> "StyleSetEdge", node |-> node, a |-> <<instanceName, edge, paramName>>]

Flex(node, flex) == [op |-> "StyleSetFlex", node |-> node, a |-> <<flex>>]

Meas(node, measureFunc) == [op |-> "SetMeasureFunc", node |-> node, a |-> <<measureFunc>>]

Text(node, flag) == [op |-> "SetIsTextnode", node |-> node, a |-> <<flag>>]

New(node) == [op |-> "New", node |-> node, a |-> <<>>]

Free(node) == [op |-> "Free", node |-> node, a |-> <<>>]

FreeRec(root) == [op |-> "FreeRecursive", node |-> root, a |-> <<>>]

Use(node) == [op |-> "canUseCachedMeasurement", node |-> node, a |-> <<>>]

Calc(node, availableWidth, availableHeight, parentDirection) == [op |-> "CalculateLayout", node |-> node, a |-> <<availableWidth, availableHeight, parentDirection>>]

StyleSetters == {"StyleSetEnum", "StyleSetFloat", "StyleSetDimension", "StyleSetEdge", "StyleSetFlex"}

\* The field holds the value already: the same number, or undefined twice.
SameValue(old, new) == IF CSSValueIsUndefined(old) \/ CSSValueIsUndefined(new) THEN CSSValueIsUndefined(old) /\ CSSValueIsUndefined(new) ELSE old = new

\* What CSSNodeStyleSetFlex stores in flexGrow, flexShrink and flexBasis.
FlexValues(flex) == IF CSSValueIsUndefined(flex) \/ flex = 0 THEN <<0, 0, CSSUndefined>> ELSE IF flex > 0 THEN <<flex, 0, 0>> ELSE <<0, -flex, CSSUndefined>>

HeldAlready(w, c) ==
  CASE c.op = "StyleSetEnum" -> w.style[c.node][c.a[1]] = c.a[2]
    [] c.op = "StyleSetFloat" -> SameValue(w.style[c.node][c.a[1]], c.a[2])
    [] c.op = "StyleSetDimension" -> SameValue(w.style[c.node][c.a[1]][c.a[2]], c.a[3])
    [] c.op = "StyleSetEdge" -> SameValue(w.style[c.node][c.a[1]][c.a[2]], c.a[3])
    [] c.op = "StyleSetFlex" -> SameValue(w.style[c.node].flexGrow, FlexValues(c.a[1])[1]) /\ SameValue(w.style[c.node].flexShrink, FlexValues(c.a[1])[2]) /\ SameValue(w.style[c.node].flexBasis, FlexValues(c.a[1])[3])
    [] OTHER -> FALSE

Note(w, c) == [w EXCEPT !.probe = [NoProbe EXCEPT !.op = c.op, !.node = c.node, !.arg = IF c.op = "CalculateLayout" THEN c.a ELSE IF c.op \in StyleSetters THEN <<HeldAlready(w, c)>> ELSE <<>>]]

Apply(w, c) ==
  CASE c.op = "InsertChild" -> CSSNodeInsertChild(Note(w, c), c.node, c.a[1], c.a[2])
    [] c.op = "RemoveChild" -> CSSNodeRemoveChild(Note(w, c), c.node, c.a[1])
    [] c.op = "MarkDirty" -> CSSNodeMarkDirty(Note(w, c), c.node)
    [] c.op = "StyleSetEnum" -> CSSNodeStyleSetEnum(Note(w, c), c.node, c.a[1], c.a[2])
    [] c.op = "StyleSetFloat" -> CSSNodeStyleSetFloat(Note(w, c), c.node, c.a[1], c.a[2])
    [] c.op = "StyleSetDimension" -> CSSNodeStyleSetDimension(Note(w, c), c.node, c.a[1], c.a[2], c.a[3])
    [] c.op = "StyleSetEdge" -> CSSNodeStyleSetEdge(Note(w, c), c.node, c.a[1], c.a[2], c.a[3])
    [] c.op = "StyleSetFlex" -> CSSNodeStyleSetFlex(Note(w, c), c.node, c.a[1])
    [] c.op = "SetMeasureFunc" -> CSSNodeSetMeasureFunc(Note(w, c), c.node, c.a[1])
    [] c.op = "SetIsTextnode" -> CSSNodeSetIsTextnode(Note(w, c), c.node, c.a[1])
    [] c.op = "CalculateLayout" -> CSSNodeCalculateLayout(Note(w, c), c.node, c.a[1], c.a[2], c.a[3])

\* The host makes the calls of a script one after the other, and makes no
\* call once the program has aborted or a call has not returned.
Step(w, c) == IF w.broken \/ w.probe.asserted THEN w ELSE Apply(w, c)

RECURSIVE Run(_, _)
Run(w, script) == IF script = <<>> THEN w ELSE Step(Run(w, SubSeq(script, 1, Len(script) - 1)), script[Len(script)])

\* The arguments the host passes.
EnumInputs == {<<"flexDirection", "Column">>, <<"flexDirection", "Row">>}

FloatInputs == {<<"flexGrow", 1>>, <<"flexBasis", CSSUndefined>>}

DimensionInputs == {<<"dimensions", "Width", CSSUndefined>>, <<"dimensions", "Width", 10>>}

EdgeInputs == {<<"padding", "Left", CSSUndefined>>, <<"padding", "Left", 3>>}

FlexInputs == {0}

MeasureInputs == {1}

CalculateInputs == {<<0, 0, "LTR">>, <<CSSUndefined, CSSUndefined, "LTR">>, <<100, CSSUndefined, "LTR">>, <<100, 50, "LTR">>, <<100, CSSUndefined, "RTL">>}

\* The trees the host has built when SpecTree starts, each by the calls of
\* its script: a chain and a fan of three nodes, bare or styled, laid out
\* or not.
Chain == <<Ins(1, 2, 0), Ins(2, 3, 0)>>

Fan == <<Ins(1, 2, 0), Ins(1, 3, 1)>>

Trees == {
  <<Meas(1, 1), Edge(1, "padding", "Left", 3)>>,
  Chain,
  Fan,
  Chain \o <<Dim(1, "minDimensions", "Width", 50), Dim(1, "maxDimensions", "Width", 50), Edge(1, "margin", "Left", 5)>>,
  Fan \o <<Enum(2, "positionType", "Absolute"), Edge(2, "position", "Left", 2), Dim(2, "dimensions", "Height", 10), Meas(3, 1)>>,
  Fan \o <<Enum(1, "flexDirection", "Row"), Dim(1, "dimensions", "Height", 20), Float(2, "flexGrow", 1), Dim(3, "dimensions", "Width", 10)>>,
  Chain \o <<Enum(1, "alignItems", "FlexStart"), Meas(3, 2), Text(3, TRUE)>>,
  Fan \o <<Enum(1, "flexDirection", "Row"), Enum(1, "flexWrap", "Wrap"), Dim(2, "dimensions", "Width", 60), Dim(3, "dimensions", "Width", 60), Meas(2, 1)>>}

Layouts == {<<>>, <<Calc(1, 100, CSSUndefined, "LTR")>>, <<Calc(1, 0, 0, "LTR")>>}

Scripts == {tree \o calc : tree \in Trees, calc \in Layouts}

Started(w, n) ==
  /\ parent = w.parent
  /\ children = w.children
  /\ style = w.style
  /\ layout = w.layout
  /\ lineIndex = w.lineIndex
  /\ hasNewLayout = w.hasNewLayout
  /\ isTextNode = w.isTextNode
  /\ isDirty = w.isDirty
  /\ nextChild = w.nextChild
  /\ measure = w.measure
  /\ gCurrentGenerationCount = w.gCurrentGenerationCount
  /\ gDepth = w.gDepth
  /\ gNodeInstanceCount = w.gNodeInstanceCount
  /\ heap = w.heap
  /\ probe = w.probe
  /\ ops = n

Init == Started(CSSNodeInit, MaxOps)

InitTree == \E script \in Scripts : Started(Run(CSSNodeInit, script), TreeOps)

\* A call of the host is made while the program runs; its effect is the
\* whole function.
Called == Alive /\ ops > 0 /\ ops' = ops - 1

\* CSS_ASSERT(child->parent == NULL); the index is one the list accepts.
InsertChild(node, child, index) == parent[child] = NULL /\ index <= CSSNodeChildCount(W, node) /\ Called /\ Commit(CSSNodeInsertChild(Note(W, Ins(node, child, index)), node, child, index))

RemoveChild(node, child) == Called /\ Commit(CSSNodeRemoveChild(Note(W, Rem(node, child)), node, child))

\* CSS_ASSERT(node->measure != NULL || CSSNodeChildCount(node) > 0)
MarkDirty(node) == (measure[node] # NULL \/ CSSNodeChildCount(W, node) > 0) /\ Called /\ Commit(CSSNodeMarkDirty(Note(W, Dirty(node)), node))

StyleSetEnum(node, instanceName, paramName) == Called /\ Commit(CSSNodeStyleSetEnum(Note(W, Enum(node, instanceName, paramName)), node, instanceName, paramName))

StyleSetFloat(node, instanceName, paramName) == Called /\ Commit(CSSNodeStyleSetFloat(Note(W, Float(node, instanceName, paramName)), node, instanceName, paramName))

StyleSetDimension(node, instanceName, d, paramName) == Called /\ Commit(CSSNodeStyleSetDimension(Note(W, Dim(node, instanceName, d, paramName)), node, instanceName, d, paramName))

StyleSetEdge(node, instanceName, edge, paramName) == Called /\ Commit(CSSNodeStyleSetEdge(Note(W, Edge(node, instanceName, edge, paramName)), node, instanceName, edge, paramName))

StyleSetFlex(node, flex) == Called /\ Commit(CSSNodeStyleSetFlex(Note(W, Flex(node, flex)), node, flex))

SetMeasureFunc(node, measureFunc) == Called /\ Commit(CSSNodeSetMeasureFunc(Note(W, Meas(node, measureFunc)), node, measureFunc))

SetIsTextnode(node, flag) == Called /\ Commit(CSSNodeSetIsTextnode(Note(W, Text(node, flag)), node, flag))

CalculateLayout(node, availableWidth, availableHeight, parentDirection) == Called /\ Commit(CSSNodeCalculateLayout(Note(W, Calc(node, availableWidth, availableHeight, parentDirection)), node, availableWidth, availableHeight, parentDirection))

Next ==
  \/ \E node \in Node, child \in Node, index \in 0 .. (NumNodes - 1) : InsertChild(node, child, index)
  \/ \E node \in Node, child \in Node : RemoveChild(node, child)
  \/ \E node \in Node : MarkDirty(node)
  \/ \E node \in Node, i \in EnumInputs : StyleSetEnum(node, i[1], i[2])
  \/ \E node \in Node, i \in FloatInputs : StyleSetFloat(node, i[1], i[2])
  \/ \E node \in Node, i \in DimensionInputs : StyleSetDimension(node, i[1], i[2], i[3])
  \/ \E node \in Node, i \in EdgeInputs : StyleSetEdge(node, i[1], i[2], i[3])
  \/ \E node \in Node, flex \in FlexInputs : StyleSetFlex(node, flex)
  \/ \E node \in Node, measureFunc \in MeasureInputs : SetMeasureFunc(node, measureFunc)
  \/ \E node \in Node : SetIsTextnode(node, TRUE)
  \/ \E node \in Node, i \in CalculateInputs : CalculateLayout(node, i[1], i[2], i[3])

\* The host starts from new nodes.
Spec == Init /\ [][Next]_vars

\* The host starts from a tree it has built.
SpecTree == InitTree /\ [][Next]_vars

(***************************************************************************)
(* Scenes: containers of up to SceneNodes nodes that the host has built    *)
(* and styled before the specification starts.  Node 1 is the container.   *)
(***************************************************************************)
SceneNode == 1 .. SceneNodes

\* The memory after CSSNodeNew of each node of the set.
NewNodes(nodes) == [CSSNodeInit EXCEPT !.parent = [n \in nodes |-> NULL], !.children = [n \in nodes |-> <<>>], !.style = [n \in nodes |-> InitStyle], !.layout = [n \in nodes |-> InitLayout], !.lineIndex = [n \in nodes |-> 0], !.hasNewLayout = [n \in nodes |-> TRUE], !.isTextNode = [n \in nodes |-> FALSE], !.isDirty = [n \in nodes |-> FALSE], !.nextChild = [n \in nodes |-> NULL], !.measure = [n \in nodes |-> NULL], !.gNodeInstanceCount = Cardinality(nodes), !.heap = [live |-> nodes, news |-> Cardinality(nodes), frees |-> 0]]

\* Insert the nodes of the sequence, in order, at the end of the list of 1.
Kids(nodes) == [i \in 1 .. Len(nodes) |-> Ins(1, nodes[i], i - 1)]

\* The same width and height on each node of the sequence.
Sized(nodes, width, height) == [i \in 1 .. (2 * Len(nodes)) |-> IF i % 2 = 1 THEN Dim(nodes[(i + 1) \div 2], "dimensions", "Width", width) ELSE Dim(nodes[i \div 2], "dimensions", "Height", height)]

Box(flexDirection, width, height) == <<Enum(1, "flexDirection", flexDirection), Dim(1, "dimensions", "Width", width), Dim(1, "dimensions", "Height", height)>>

\* A row of 300 with two items that grow: each grow factor, flex basis,
\* a margin on the first and a maximum width on the second.
GrowScenes == {Box("Row", 300, 100) \o Kids(<<2, 3>>) \o <<Float(2, "flexGrow", g[1]), Float(3, "flexGrow", g[2]), Float(2, "flexBasis", b[1]), Float(3, "flexBasis", b[2]), Edge(2, "margin", "Left", m), Dim(3, "maxDimensions", "Width", x)>> : g \in {0, 1, 2} \X {0, 1, 2}, b \in {0, 60} \X {0, 60}, m \in {0, 12}, x \in {CSSUndefined, 60}}

\* A row of 300 with two or three items of one width, under each
\* justifyContent, with a margin on the second item or none.
JustifyScenes == {Box("Row", 300, 100) \o Kids(kids) \o Sized(kids, width, 20) \o <<Enum(1, "justifyContent", j), Edge(3, "margin", "Left", m)>> : kids \in {<<2, 3>>, <<2, 3, 4>>}, width \in {50, 120}, j \in CSSJustify, m \in {0, 10}}

\* Four items of 100 by 100 in a box that holds two of them on its main
\* axis, wrapping or not.
WrapScenes == {Box(flexDirection, size[1], size[2]) \o Kids(<<2, 3, 4, 5>>) \o Sized(<<2, 3, 4, 5>>, 100, 100) \o <<Enum(1, "flexWrap", flexWrap)>> : flexDirection \in {"Column", "Row"}, size \in {<<150, 250>>, <<250, 150>>}, flexWrap \in CSSWrapType}

\* The ways the container gets its size: from its style (Exactly), from a
\* maximum (AtMost) or from its content (Undefined).
RootSizes == {<<Dim(1, "dimensions", "Width", 200), Dim(1, "dimensions", "Height", 200)>>, <<Dim(1, "maxDimensions", "Width", 200), Dim(1, "maxDimensions", "Height", 200)>>, <<>>}

\* A container with two items of 50 by 20 or none, and node 4 styled as an
\* absolute child (left 10, top 20, 30 by 40) that is not inserted yet.
AbsoluteScenes == {<<Enum(1, "flexDirection", flexDirection), Enum(1, "justifyContent", j), Enum(1, "flexWrap", flexWrap)>> \o size \o Kids(kids) \o Sized(kids, 50, 20) \o <<Enum(4, "positionType", "Absolute"), Edge(4, "position", "Left", 10), Edge(4, "position", "Top", 20), Dim(4, "dimensions", "Width", 30), Dim(4, "dimensions", "Height", 40)>> : flexDirection \in {"Row", "Column"}, j \in CSSJustify, flexWrap \in CSSWrapType, size \in RootSizes, kids \in {<<>>, <<2, 3>>}}

\* A row or a reversed row of 300 with two items of 50 by 20; the first
\* has a relative offset from the left, a start margin, a left margin, or
\* none of them.
DirectionScenes == {Box(flexDirection, 300, 100) \o Kids(<<2, 3>>) \o Sized(<<2, 3>>, 50, 20) \o <<Enum(1, "justifyContent", j), Edge(2, "position", "Left", left), Edge(2, "margin", "Start", start), Edge(2, "margin", "Left", m)>> : flexDirection \in {"Row", "RowReverse"}, j \in {"FlexStart", "SpaceBetween"}, left \in {CSSUndefined, 10}, start \in {CSSUndefined, 5}, m \in {CSSUndefined, 7}}

\* A leaf of 100 by 50 with a measure callback that was laid out, was given
\* a minimum width, and was laid out again or not.
LeafScenes == {<<Meas(1, f), Dim(1, "dimensions", "Width", 100), Dim(1, "dimensions", "Height", 50), Calc(1, CSSUndefined, CSSUndefined, "LTR"), Dim(1, "minDimensions", "Width", min)>> \o again : f \in {1, 2}, min \in {20, 150}, again \in {<<>>, <<Calc(1, CSSUndefined, CSSUndefined, "LTR")>>}}

Scenes == GrowScenes \cup JustifyScenes \cup WrapScenes \cup AbsoluteScenes \cup DirectionScenes \cup LeafScenes

SceneCalculateInputs == {<<CSSUndefined, CSSUndefined, "LTR">>, <<CSSUndefined, CSSUndefined, "RTL">>}

InitScene == \E script \in Scenes : Started(Run(NewNodes(SceneNode), script), TreeOps)

NextScene ==
  \/ \E i \in SceneCalculateInputs : CalculateLayout(1, i[1], i[2], i[3])
  \/ \E child \in SceneNode \ {1}, index \in 0 .. (SceneNodes - 1) : InsertChild(1, child, index)

\* The host starts from a scene.
SpecScene == InitScene /\ [][NextScene]_vars



(***************************************************************************)
(* The host allocates nodes, builds trees of them and frees them.  It      *)
(* calls a function on nodes that are allocated, inserts a root under a    *)
(* node of another tree, and frees a node that no other node refers to.    *)
(***************************************************************************)
AllocOps == 6

\* The nodes a node of the set leads to through its parent references.
RECURSIVE Roots(_, _)
Roots(node, fuel) == IF fuel = 0 \/ parent[node] = NULL THEN {node} ELSE {node} \cup Roots(parent[node], fuel - 1)

NewNode(node) == node \notin heap.live /\ Called /\ Commit(CSSNodeNew(Note(W, New(node)), node))

BuildTree(node, child, index) == node \in heap.live /\ child \in heap.live /\ child \notin Roots(node, NumNodes) /\ InsertChild(node, child, index)

FreeNode(node) == node \in heap.live /\ parent[node] = NULL /\ children[node] = <<>> /\ Called /\ Commit(CSSNodeFree(Note(W, Free(node)), node))

FreeRecursive(root) == root \in heap.live /\ parent[root] = NULL /\ Called /\ Commit(CSSNodeFreeRecursive(Note(W, FreeRec(root)), root))

\* No node or one node is allocated when the host starts.
InitAlloc == \E nodes \in {{}, {NumNodes}} : Started([NewNodes(Node) EXCEPT !.gNodeInstanceCount = Cardinality(nodes), !.heap = [live |-> nodes, news |-> Cardinality(nodes), frees |-> 0]], AllocOps)

NextAlloc ==
  \/ \E node \in Node : NewNode(node)
  \/ \E node \in Node, child \in Node, index \in 0 .. (NumNodes - 1) : BuildTree(node, child, index)
  \/ \E node \in Node : FreeNode(node)
  \/ \E root \in Node : FreeRecursive(root)

SpecAlloc == InitAlloc /\ [][NextAlloc]_vars

(***************************************************************************)
(* The cache-hit predicate on its own: node 1 is a leaf with a measure     *)
(* callback whose cachedLayout holds an entry of an earlier layout, and    *)
(* the lookup of layoutNodeInternal (lines 2157-2170) asks whether the     *)
(* entry serves a request, on its own or in a measure-only invocation.     *)
(***************************************************************************)
\* An available size and its mode, as layoutNodeInternal receives them.
Constraints == {[size |-> CSSUndefined, mode |-> "Undefined"]} \cup {[size |-> size, mode |-> mode] : size \in {50, 100}, mode \in {"Exactly", "AtMost"}}

CachedEntries == {[availableWidth |-> width.size, availableHeight |-> height.size, widthMeasureMode |-> width.mode, heightMeasureMode |-> height.mode, computedWidth |-> computed[1], computedHeight |-> computed[2]] : width \in Constraints, height \in Constraints, computed \in {40, 50, 100} \X {40, 50, 100}}

UseCachedMeasurement(node, width, height) == Called /\ Commit([Note(W, Use(node)) EXCEPT !.probe.arg = <<width, height, canUseCachedMeasurement(isTextNode[node], width.size, height.size, getMarginAxis(W, node, "Row"), getMarginAxis(W, node, "Column"), width.mode, height.mode, layout[node].cachedLayout)>>])

\* A measure-only invocation of the kernel on the node (the call of lines
\* 914-921 and 1623-1630) during the next CSSNodeCalculateLayout.
MeasureCall(node) == [op |-> "layoutNodeInternal", node |-> node, a |-> <<>>]

MeasureNode(node, r) == Called /\ Commit(layoutNodeInternal([NextGeneration(Note(W, MeasureCall(node))) EXCEPT !.probe.arg = r], node, r[1], r[2], "LTR", r[3], r[4], FALSE, "measure"))

InitCache == \E text \in BOOLEAN, entry \in CachedEntries, margin \in {0, 10} : Started([NewNodes({1}) EXCEPT !.measure[1] = 1, !.isTextNode[1] = text, !.style[1].margin["Top"] = margin, !.layout[1].cachedLayout = entry, !.layout[1].lastParentDirection = "LTR"], 1)

NextCache ==
  \/ \E width \in Constraints, height \in Constraints : UseCachedMeasurement(1, width, height)
  \/ \E width \in Constraints, height \in Constraints : MeasureNode(1, <<width.size, height.size, width.mode, height.mode>>)

SpecCache == InitCache /\ [][NextCache]_vars

(***************************************************************************)
(* The measurement ring: a chain of three bare nodes that the host lays    *)
(* out again and again under a new width or under the first one.  No node  *)
(* is ever dirty, so nothing is invalidated and every call adds to the     *)
(* rings of nodes 2 and 3 until they are full.                             *)
(***************************************************************************)
RingOps == 9

\* The widths the host may pass in its next call: the first one, or one it
\* has not passed before.
RingWidths(n) == {10, 10 * (RingOps - n + 1)}

InitRing == Started(Run(CSSNodeInit, Chain), RingOps)

NextRing == \E width \in RingWidths(ops) : CalculateLayout(1, width, CSSUndefined, "LTR")

SpecRing == InitRing /\ [][NextRing]_vars

(***************************************************************************)
(* A measure-only invocation of the kernel on its own: the call of lines   *)
(* 914-921 and 1623-1630, layoutNodeInternal with performLayout false,     *)
(* made on a node of a scene or of a tree that the host has built, laid    *)
(* out or not, and dirtied or not since.                                   *)
(***************************************************************************)
\* The sizes and modes of the invocation.
MeasureRequests == {<<CSSUndefined, CSSUndefined, "Undefined", "Undefined">>, <<100, CSSUndefined, "Exactly", "Undefined">>, <<100, 50, "AtMost", "AtMost">>}

\* What the host has done since it built the scene: nothing, a layout, or a
\* layout and a change of node 2 that dirties it and its ancestors.
Since(k) == SubSeq(<<Calc(1, CSSUndefined, CSSUndefined, "LTR"), Dim(2, "dimensions", "Height", 30)>>, 1, k)

InitMeasure ==
  \/ \E scene \in Scenes, k \in 0 .. 2 : Started(Run(NewNodes(SceneNode), scene \o Since(k)), 1)
  \/ \E tree \in Trees, k \in 0 .. 2 : Started(Run(NewNodes(SceneNode), tree \o Since(k)), 1)

NextMeasure == \E node \in SceneNode, r \in MeasureRequests : MeasureNode(node, r)

SpecMeasure == InitMeasure /\ [][NextMeasure]_vars

(***************************************************************************)
(* Scenes of flexible items.  Those that meet a minimum or a maximum: a row *)
(* of a definite width with two items of a definite flex basis, one with a *)
(* maximum width or without, the other with a minimum width or without.    *)
(***************************************************************************)
ClampScenes == {Box("Row", width, 100) \o Kids(<<2, 3>>) \o <<Float(2, "flexGrow", 1), Float(3, "flexGrow", g), Float(2, "flexShrink", s), Float(3, "flexShrink", s), Float(2, "flexBasis", b), Float(3, "flexBasis", b), Dim(2, side[1], "Width", x), Dim(3, side[2], "Width", y)>> : width \in {100, 300}, g \in {0, 1}, s \in {0, 1}, b \in {0, 80}, side \in {<<"maxDimensions", "minDimensions">>, <<"minDimensions", "maxDimensions">>}, x \in {CSSUndefined, 20, 70}, y \in {CSSUndefined, 60, 90}}

\* Scenes of an item with a flex basis and a padding on one axis only: a
\* box of a definite size with one child, laid out or not, whose flex
\* direction the host has set again since.
BasisScenes == {Box(d[1], 300, 100) \o Kids(<<2>>) \o <<Float(2, "flexBasis", b), Edge(2, "padding", "Left", padding)>> \o calc \o <<Enum(1, "flexDirection", d[2])>> : d \in {"Row", "Column"} \X {"Row", "Column"}, b \in {10, 60}, padding \in {CSSUndefined, 50}, calc \in {<<>>, <<Calc(1, CSSUndefined, CSSUndefined, "LTR")>>}}

InitFlex ==
  \/ \E script \in ClampScenes : Started(Run(NewNodes(SceneNode), script), TreeOps)
  \/ \E script \in BasisScenes : Started(Run(NewNodes(SceneNode), script), TreeOps)

SpecFlex == InitFlex /\ [][NextScene]_vars


(***************************************************************************)
(* Frames: the host lays a container out, walks the tree reading and       *)
(* clearing hasNewLayout, and lays it out again, with or without a change  *)
(* of style in between.  Clearing the flag is not a call the probe notes:  *)
(* the probe keeps the last call that can change a layout.                 *)
(***************************************************************************)
FrameOps == 5

FrameNode == 1 .. 3

\* A row or a column of 300 by 100 over a fan or a chain of two nodes, the
\* last one 50 by 20, laid out already or not.
FrameScenes == {Box(flexDirection, 300, 100) \o tree \o Sized(<<3>>, 50, 20) \o laid : flexDirection \in {"Row", "Column"}, tree \in {Fan, Chain}, laid \in {<<>>, <<Calc(1, CSSUndefined, CSSUndefined, "LTR")>>}}

InitFrame == \E script \in FrameScenes : Started(Run(NewNodes(SceneNode), script), FrameOps)

SetHasNewLayout(node, flag) == Called /\ Commit(CSSNodeSetHasNewLayout(W, node, flag))

NextFrame ==
  \/ \E i \in SceneCalculateInputs : CalculateLayout(1, i[1], i[2], i[3])
  \/ \E node \in FrameNode : SetHasNewLayout(node, FALSE)
  \/ StyleSetDimension(2, "dimensions", "Width", 70)

\* The host lays out frame after frame.
SpecFrame == InitFrame /\ [][NextFrame]_vars

(***************************************************************************)
(* The properties.  An ancestor of a node is a node its parent references  *)
(* lead to, as _CSSNodeMarkDirty walks them; the subtree of a node is what *)
(* the child lists lead to, as layoutNodeImpl walks them.                  *)
(***************************************************************************)
RECURSIVE Up(_, _)
Up(node, fuel) == IF fuel = 0 \/ parent[node] = NULL THEN {} ELSE {parent[node]} \cup Up(parent[node], fuel - 1)

Ancestors(node) == Up(node, NumNodes)

Path(node) == {node} \cup Ancestors(node)

ChildrenOf(node) == {children[node][i] : i \in 1 .. Len(children[node])}

RECURSIVE Down(_, _)
Down(nodes, fuel) == IF fuel = 0 THEN nodes ELSE Down(nodes \cup UNION {ChildrenOf(n) : n \in nodes}, fuel - 1)

Subtree(node) == Down({node}, NumNodes)

\* The last call was a CalculateLayout and it has returned.
Calculated == probe.op = "CalculateLayout" /\ Alive

\* This step is a CalculateLayout that repeats the call before it and returns.
Repeated == Calculated /\ probe'.op = "CalculateLayout" /\ probe'.node = probe.node /\ probe'.arg = probe.arg /\ ~probe'.diverged /\ ~probe'.overflow

SameLayout == \A n \in Node : layout'[n].position = layout[n].position /\ layout'[n].dimensions = layout[n].dimensions

\* C1: a CalculateLayout that repeats the call before it (the same root,
\* available width, available height and parent direction, and no call in
\* between) leaves the position and the dimensions of every node as they
\* were, runs layoutNodeImpl on no node and calls no measure function.
C1_RepeatedCalculate == [][Repeated => (SameLayout /\ probe'.ran = <<>> /\ probe'.measured = <<>>)]_vars

SetterStep(held) == probe'.op \in StyleSetters /\ probe'.arg = <<held>>

\* C3: a style setter called with the value the field holds already, the
\* undefined value included, leaves isDirty as it was on the node and on
\* every ancestor of it.
C3_SameValueSetter == [][SetterStep(TRUE) => \A n \in Path(probe'.node) : isDirty'[n] = isDirty[n]]_vars

Axes == {"Row", "Column"}

\* C5: when CalculateLayout has returned, each node of the subtree laid out
\* is, on both axes, at least as large as its padding and border together,
\* whether the size was computed or came from the cache.
C5_PaddingBorderFloor == Calculated => \A n \in Subtree(probe.node), axis \in Axes : FGe(layout[n].dimensions[dim(axis)], getPaddingAndBorderAxis(W, n, axis))


\* A node with a minimum and a maximum on the axis, the minimum not above
\* the maximum.
HasMinAndMax(n, axis) == FGe(style[n].minDimensions[dim(axis)], 0) /\ FGe(style[n].maxDimensions[dim(axis)], style[n].minDimensions[dim(axis)])

\* C6: when CalculateLayout has returned, a node of the subtree laid out
\* that has a minimum and a maximum on an axis is at least as large as the
\* minimum and at most as large as the maximum, or as its padding and
\* border together where these exceed the maximum.
C6_WithinMinAndMax == Calculated => \A n \in Subtree(probe.node), axis \in Axes : HasMinAndMax(n, axis) => (FGe(layout[n].dimensions[dim(axis)], style[n].minDimensions[dim(axis)]) /\ FLe(layout[n].dimensions[dim(axis)], fmaxf(style[n].maxDimensions[dim(axis)], getPaddingAndBorderAxis(W, n, axis))))

\* The places of node c in the child lists.
Places(c) == {<<p, i>> \in Node \X (1 .. NumNodes) : i <= Len(children[p]) /\ children[p][i] = c}

\* C7: each node is in at most one child list and at most once in it, and
\* c is in the child list of p exactly when the parent reference of c is p.
C7_OneParent == \A c \in Node : Cardinality(Places(c)) <= 1 /\ \A p \in Node : (c \in ChildrenOf(p)) <=> (parent[c] = p)

\* C8: between two calls, a node that is dirty has no computedFlexBasis.
C8_DirtyHasNoFlexBasis == Alive => \A n \in Node : isDirty[n] => CSSValueIsUndefined(layout[n].computedFlexBasis)

\* C9: every call of layoutNodeInternal passes an undefined available width
\* exactly when the width mode is Undefined, and likewise for the height,
\* so the assertions at the entry of layoutNodeImpl never fire.
C9_ModesMatchSizes == ~probe.mismatch /\ ~probe.asserted

\* C10: CalculateLayout returns on every structure InsertChild and
\* RemoveChild can build: no call of layoutNodeInternal meets, further up
\* the call stack, the same call on the same memory.
C10_CalculateReturns == ~probe.diverged


C9_AllCallSites == ops < TreeOps /\ Calculated /\ probe.reasons = {"initial", "measure", "flex", "stretch", "abs-measure", "abs-layout"} /\ Len(probe.ran) > 0

(***************************************************************************)
(* The properties of the flex algorithm.  They speak of a container p and  *)
(* of its children as the last layout left them.                           *)
(***************************************************************************)
Nodes == DOMAIN parent

RECURSIVE Sum(_)
Sum(s) == IF s = <<>> THEN 0 ELSE Head(s) + Sum(Tail(s))

\* The main and the cross axis layoutNodeImpl resolved for p.
MainAxis(p) == resolveAxis(style[p].flexDirection, layout[p].direction)

CrossAxis(p) == getCrossFlexDirection(MainAxis(p), layout[p].direction)

\* The children of p that are in the flow, in the order of the list.
InFlow(p) == SelectSeq(children[p], LAMBDA c : style[c].positionType = "Relative")

\* The size of p inside its padding and border.
InnerSize(p, axis) == layout[p].dimensions[dim(axis)] - getPaddingAndBorderAxis(W, p, axis)

\* The distance of c from the leading edge of its parent on the axis,
\* without the offset of its relative position.
Place(c, axis) == IF axis \in {"Row", "Column"} THEN layout[c].position[leading(axis)] - getRelativePosition(W, c, axis) ELSE layout[c].position[trailing(axis)] + getRelativePosition(W, c, axis)

\* The same distance measured from the edge the axis starts at.
Offset(p, c, axis) == IF axis \in {"Row", "Column"} THEN Place(c, axis) ELSE layout[p].dimensions[dim(axis)] - layout[c].dimensions[dim(axis)] - Place(c, axis)

\* The free space of the one line of p: its inner main size less the flex
\* basis and the margins of each item.
FreeSpace(p) == InnerSize(p, MainAxis(p)) - Sum([i \in 1 .. Len(InFlow(p)) |-> layout[InFlow(p)[i]].computedFlexBasis + getMarginAxis(W, InFlow(p)[i], MainAxis(p))])

TotalGrow(p) == Sum([i \in 1 .. Len(InFlow(p)) |-> style[InFlow(p)[i]].flexGrow])

\* The share of c: its basis and its part of the free space.
Share(p, c) == layout[c].computedFlexBasis + ((FreeSpace(p) * style[c].flexGrow) \div TotalGrow(p))

\* p is a container of one line, of a definite main size, that has free
\* space to hand out, and no share meets a minimum, a maximum or the
\* padding and border of its item.
Distributes(p) == Len(InFlow(p)) > 0 /\ style[p].flexWrap = "NoWrap" /\ isStyleDimDefined(W, p, MainAxis(p)) /\ (\A i \in 1 .. Len(InFlow(p)) : IsFinite(layout[InFlow(p)[i]].computedFlexBasis) /\ IsFinite(style[InFlow(p)[i]].flexGrow)) /\ TotalGrow(p) > 0 /\ FreeSpace(p) > 0 /\ \A i \in 1 .. Len(InFlow(p)) : boundAxis(W, InFlow(p)[i], MainAxis(p), Share(p, InFlow(p)[i])) = Share(p, InFlow(p)[i])

\* The items of the line s of p follow each other on the main axis from
\* the leading padding edge with nothing between them but their margins.
Contiguous(p, s) == \A i \in 1 .. Len(s) : Offset(p, s[i], MainAxis(p)) = getLeadingMargin(W, s[i], MainAxis(p)) + (IF i = 1 THEN getLeadingPaddingAndBorder(W, p, MainAxis(p)) ELSE Offset(p, s[i - 1], MainAxis(p)) + layout[s[i - 1]].dimensions[dim(MainAxis(p))] + getTrailingMargin(W, s[i - 1], MainAxis(p)))

\* C11: when CalculateLayout has returned, on a container that hands out
\* positive free space without meeting a clamp, each item in the flow is
\* as large on the main axis as its basis plus free * grow / sum of grow,
\* the sizes and margins add up to the inner main size, and the items are
\* contiguous.
C11_FlexGrowShares == Calculated => \A p \in Nodes : (layout[p].generationCount = gCurrentGenerationCount /\ Distributes(p)) => ((\A i \in 1 .. Len(InFlow(p)) : (layout[InFlow(p)[i]].dimensions[dim(MainAxis(p))] - layout[InFlow(p)[i]].computedFlexBasis) * TotalGrow(p) = FreeSpace(p) * style[InFlow(p)[i]].flexGrow) /\ Sum([i \in 1 .. Len(InFlow(p)) |-> layout[InFlow(p)[i]].dimensions[dim(MainAxis(p))] + getMarginAxis(W, InFlow(p)[i], MainAxis(p))]) = InnerSize(p, MainAxis(p)) /\ Contiguous(p, InFlow(p)))

\* Grow 1 and 2 on a zero basis in a row of 300: 100 at 0 and 200 at 100.
C11_OneAndTwo == Calculated /\ Distributes(1) /\ children[1] = <<2, 3>> /\ style[2].flexGrow = 1 /\ style[3].flexGrow = 2 /\ FreeSpace(1) = 300 /\ layout[2].dimensions["Width"] = 100 /\ layout[3].dimensions["Width"] = 200 /\ layout[2].position["Left"] = 0 /\ layout[3].position["Left"] = 100

\* p was laid out by the last CalculateLayout.
LaidOut(p) == ~isDirty[p] /\ layout[p].generationCount = gCurrentGenerationCount /\ Len(InFlow(p)) > 0

\* The items of line k of p, and the numbers of its lines.
Line(p, k) == SelectSeq(InFlow(p), LAMBDA c : lineIndex[c] = k)

LinesOf(p) == {k \in 0 .. Len(children[p]) : Line(p, k) # <<>>}

\* What the items of the line s and their margins leave of the inner main
\* size of p.
Remaining(p, s) == InnerSize(p, MainAxis(p)) - Sum([i \in 1 .. Len(s) |-> layout[s[i]].dimensions[dim(MainAxis(p))] + getMarginAxis(W, s[i], MainAxis(p))])

\* The gap before item i of the line s.
Gap(p, s, i) == Offset(p, s[i], MainAxis(p)) - getLeadingMargin(W, s[i], MainAxis(p)) - (IF i = 1 THEN getLeadingPaddingAndBorder(W, p, MainAxis(p)) ELSE Offset(p, s[i - 1], MainAxis(p)) + layout[s[i - 1]].dimensions[dim(MainAxis(p))] + getTrailingMargin(W, s[i - 1], MainAxis(p)))

\* The line s of p is spread: no gap before the first item, the remaining
\* space in equal gaps between the items, the last item at the trailing
\* padding edge.
Spread(p, s) == Gap(p, s, 1) = 0 /\ (\A i \in 2 .. Len(s) : Gap(p, s, i) * (Len(s) - 1) = Remaining(p, s)) /\ Offset(p, s[Len(s)], MainAxis(p)) + layout[s[Len(s)]].dimensions[dim(MainAxis(p))] + getTrailingMargin(W, s[Len(s)], MainAxis(p)) = layout[p].dimensions[dim(MainAxis(p))] - getTrailingPaddingAndBorder(W, p, MainAxis(p))

\* No item of the line s is moved by a position offset, and none has a
\* margin on the Start or the End edge: setPosition resolves those along
\* the item's own axes, not along the axes of the container.
Unshifted(s) == \A i \in 1 .. Len(s) : (\A e \in CSSEdge : CSSValueIsUndefined(style[s[i]].position[e])) /\ CSSValueIsUndefined(style[s[i]].margin["Start"]) /\ CSSValueIsUndefined(style[s[i]].margin["End"])

FourInColumn == Calculated /\ probe.node = 1 /\ layout[1].direction = "LTR" /\ style[1] = [InitStyle EXCEPT !.flexDirection = "Column", !.flexWrap = "Wrap", !.dimensions = [d \in CSSDimension |-> IF d = "Width" THEN 150 ELSE 250]] /\ children[1] = <<2, 3, 4, 5>> /\ \A c \in 2 .. 5 : style[c] = [InitStyle EXCEPT !.dimensions = [d \in CSSDimension |-> 100]] /\ children[c] = <<>> /\ measure[c] = NULL

\* The x and the y of the four children, in child order.
Xs == [i \in 1 .. 4 |-> layout[children[1][i]].position["Left"]]

Ys == [i \in 1 .. 4 |-> layout[children[1][i]].position["Top"]]

LineIndexes == [i \in 1 .. 4 |-> lineIndex[children[1][i]]]

\* C13 as the specification states it: the line at x = 0 holds children 0
\* and 2, the line at x = 100 holds children 1 and 3, and the y positions
\* are 0, 100, 0, 100.
C13_LinesAsStated == FourInColumn => (Xs = <<0, 100, 0, 100>> /\ LineIndexes = <<0, 1, 0, 1>> /\ Ys = <<0, 100, 0, 100>>)

\* C13: the four children make two lines; the line at x = 0 holds children
\* 0 and 1, the line at x = 100 holds children 2 and 3, and the y positions
\* in child order are 0, 100, 0, 100; every child is 100 by 100 and the
\* container 150 by 250.
C13_TwoLines == FourInColumn => (Xs = <<0, 0, 100, 100>> /\ LineIndexes = <<0, 0, 1, 1>> /\ Ys = <<0, 100, 0, 100>> /\ (\A c \in 2 .. 5 : layout[c].dimensions = [d \in CSSDimension |-> 100]) /\ layout[1].dimensions = [d \in CSSDimension |-> IF d = "Width" THEN 150 ELSE 250])

\* The scene was laid out, and its last child is on the second line.
C13_Wrapped == FourInColumn /\ lineIndex[5] = 1 /\ layout[5].position["Left"] = 100


\* A node styled as an absolute child that is in no child list.
Detached(a) == a # 1 /\ parent[a] = NULL /\ children[a] = <<>> /\ style[a].positionType = "Absolute" /\ \A p \in Nodes : a \notin ChildrenOf(p)

\* The position and the size of node n in the memory w.
Box4(w, n) == <<w.layout[n].position, w.layout[n].dimensions>>

\* The two layouts leave the container and its children alike.
SameBoxes(with, without) == \A n \in {1} \cup ChildrenOf(1) : Box4(with, n) = Box4(without, n)

\* C14: laying out container 1 after an absolute child was inserted at any
\* index leaves the position and the size of the container and of each of
\* its children what laying it out without that child leaves them, under
\* every justifyContent, wrapping or not, in every measure mode, with
\* siblings or without them.
C14_AbsoluteChildOutOfFlow == Alive => \A a \in Nodes : Detached(a) => \A index \in 0 .. Len(children[1]), i \in SceneCalculateInputs : SameBoxes(CSSNodeCalculateLayout(CSSNodeInsertChild(W, 1, a, index), 1, i[1], i[2], i[3]), CSSNodeCalculateLayout(W, 1, i[1], i[2], i[3]))

\* The absolute child was inserted between two items of a row and laid
\* out: it is 30 by 40 at (10, 20), and the items are where the layout of
\* the container without it puts them.
C14_Inserted == Calculated /\ children[1] = <<2, 4, 3>> /\ style[4].positionType = "Absolute" /\ layout[4].position["Left"] = 10 /\ layout[4].position["Top"] = 20 /\ layout[4].dimensions["Width"] = 30 /\ layout[4].dimensions["Height"] = 40 /\ layout[3].position["Left"] = 50 /\ Box4(W, 3) = Box4(CSSNodeCalculateLayout(CSSNodeRemoveChild(W, 1, 4), 1, probe.arg[1], probe.arg[2], probe.arg[3]), 3)


RECURSIVE Max(_)
Max(s) == IF s = <<>> THEN 0 ELSE IF Head(s) > Max(Tail(s)) THEN Head(s) ELSE Max(Tail(s))

\* The size of c with its margins.
OuterSize(c, axis) == layout[c].dimensions[dim(axis)] + getMarginAxis(W, c, axis)

\* The cross size of line k of p: that of its largest item.
LineCross(p, k) == Max([i \in 1 .. Len(Line(p, k)) |-> OuterSize(Line(p, k)[i], CrossAxis(p))])

\* The items of the line of c fit in the inner main size of p, and the
\* lines of p fit in its inner cross size.
FitsMain(p, c) == Remaining(p, Line(p, lineIndex[c])) >= 0

FitsCross(p) == Sum([k \in 1 .. Cardinality(LinesOf(p)) |-> LineCross(p, k - 1)]) <= InnerSize(p, CrossAxis(p))

\* c is moved by no relative offset and by no negative margin on the axis.
NoShift(c, axis) == getRelativePosition(W, c, axis) = 0 /\ getLeadingMargin(W, c, axis) >= 0 /\ getTrailingMargin(W, c, axis) >= 0

\* c lies within p on the axis.
Within(p, c, axis) == 0 <= layout[c].position[leading(axis)] /\ layout[c].position[leading(axis)] <= layout[p].dimensions[dim(axis)] - layout[c].dimensions[dim(axis)]

\* C15 as the specification states it: when CalculateLayout has returned,
\* each child in the flow of a container whose overflow is Visible lies
\* within the container on both axes.
C15_WithinParent == Calculated => \A p \in Nodes : (LaidOut(p) /\ style[p].overflow = "Visible") => \A i \in 1 .. Len(InFlow(p)), axis \in Axes : Within(p, InFlow(p)[i], axis)

\* C15: when CalculateLayout has returned, a child in the flow of a
\* container whose overflow is Visible lies within the container on an
\* axis if no offset and no negative margin moves it on that axis and the
\* content fits there: the items of its line in the inner main size, or
\* the lines in the inner cross size.
C15_WithinParentIfFits == Calculated => \A p \in Nodes : (LaidOut(p) /\ style[p].overflow = "Visible") => \A i \in 1 .. Len(InFlow(p)), axis \in Axes : (NoShift(InFlow(p)[i], axis) /\ (IF dim(axis) = dim(MainAxis(p)) THEN FitsMain(p, InFlow(p)[i]) ELSE FitsCross(p))) => Within(p, InFlow(p)[i], axis)

\* Three items are centered in a row with space left: the first is inside,
\* away from the leading edge.
C15_Centered == Calculated /\ LaidOut(1) /\ style[1].justifyContent = "Center" /\ Len(InFlow(1)) = 3 /\ Remaining(1, InFlow(1)) > 0 /\ FitsCross(1) /\ layout[2].position["Left"] > 0 /\ \A i \in 1 .. 3 : Within(1, InFlow(1)[i], "Row") /\ Within(1, InFlow(1)[i], "Column")


\* The memory after container 1 was given the flex direction and laid out
\* under the direction.
Directed(flexDirection, direction) == CSSNodeCalculateLayout(CSSNodeStyleSetEnum(W, 1, "flexDirection", flexDirection), 1, CSSUndefined, CSSUndefined, direction)

\* The two layouts give each child of container 1 the same four edges and
\* the same size.
Mirrored(a, b) == \A c \in ChildrenOf(1) : Box4(a, c) = Box4(b, c)

\* C16: a container with a row flex direction gives its children the same
\* positions and sizes as RowReverse under LTR and as Row under RTL, and
\* the same as Row under LTR and as RowReverse under RTL.
C16_MirrorSymmetry == (Alive /\ isRowDirection(style[1].flexDirection)) => (Mirrored(Directed("RowReverse", "LTR"), Directed("Row", "RTL")) /\ Mirrored(Directed("Row", "LTR"), Directed("RowReverse", "RTL")))


\* C17: the instance count is always the number of nodes allocated less the
\* number freed, which is the number of nodes that are allocated; and a
\* FreeRecursive on the root of a tree frees the nodes of the tree and no
\* other, so that the count is what it was before they were allocated.
C17_InstanceCount == [](CSSNodeGetInstanceCount(W) = heap.news - heap.frees /\ CSSNodeGetInstanceCount(W) = Cardinality(heap.live)) /\ [][probe'.op = "FreeRecursive" => (heap'.live = heap.live \ Subtree(probe'.node) /\ CSSNodeGetInstanceCount(W)' = CSSNodeGetInstanceCount(W) - Cardinality(Subtree(probe'.node)))]_vars

\* Three nodes were allocated, two of them were given a child (the insertion
\* marked them), and one FreeRecursive has freed the three: the count is 0,
\* as it was before.
C17_BuiltAndFreed == probe.op = "FreeRecursive" /\ ops = 0 /\ heap.news = 3 /\ heap.frees = 3 /\ Cardinality({n \in Node : isDirty[n]}) = 2 /\ heap.live = {} /\ CSSNodeGetInstanceCount(W) = 0


\* The calls of measure callbacks the last CalculateLayout made.
Measured == {probe.measured[i] : i \in 1 .. Len(probe.measured)}

\* The nodes layoutNodeImpl ran on.
Ran == {probe.ran[i].node : i \in 1 .. Len(probe.ran)}

\* C18: a measure callback is called only on a node that has one and has
\* no children, with modes that are not both Exactly and with an inner
\* width and an inner height (the available size less margin, padding and
\* border) that are not 0 or less; a node with children is never measured
\* by its callback.
C18_MeasureOnlyLeaves == \A m \in Measured : measure[m.node] # NULL /\ CSSNodeChildCount(W, m.node) = 0 /\ ~(m.widthMeasureMode = "Exactly" /\ m.heightMeasureMode = "Exactly") /\ ~FLe(m.innerWidth, 0) /\ ~FLe(m.innerHeight, 0)

\* layoutNodeImpl ran on a node that has a callback and a child, and the
\* only callback called is that of a leaf below it.
C18_ParentWithCallback == Calculated /\ Measured # {} /\ \E n \in Ran : measure[n] # NULL /\ CSSNodeChildCount(W, n) > 0 /\ \A m \in Measured : m.node # n /\ m.node \in Subtree(n)


\* C19: no call of layoutNodeInternal serves the size of a node from an
\* entry that was cleared when the node was entered dirty or under another
\* parent direction: what such an entry holds was computed before.
C19_NoClearedEntryServed == ~probe.stale


\* An axis is the same in the entry and in the request: both are
\* Undefined, or the modes are equal and so are the available sizes.
SameAxis(cachedMode, cachedAvailable, request) == (cachedMode = "Undefined" /\ request.mode = "Undefined") \/ (cachedMode = request.mode /\ eq(cachedAvailable, request.size))

\* The entry is valid for the request on an axis: it was Undefined and the
\* request is AtMost with room for the computed size, or the request is
\* Exactly the computed size (the margin apart).
ValidAxis(cachedMode, cachedComputed, request, margin) == (cachedMode = "Undefined" /\ request.mode = "AtMost" /\ FLe(cachedComputed, FSub(request.size, margin))) \/ (request.mode = "Exactly" /\ eq(cachedComputed, FSub(request.size, margin)))

\* The entry serves the request for width and height.
Usable(text, entry, width, height, marginRow, marginColumn) ==
  \/ (SameAxis(entry.widthMeasureMode, entry.availableWidth, width) \/ ValidAxis(entry.widthMeasureMode, entry.computedWidth, width, marginRow)) /\ (SameAxis(entry.heightMeasureMode, entry.availableHeight, height) \/ ValidAxis(entry.heightMeasureMode, entry.computedHeight, height, marginColumn))
  \/ text /\ SameAxis(entry.widthMeasureMode, entry.availableWidth, width) /\ (height.mode = "Undefined" \/ (height.mode = "AtMost" /\ FLt(entry.computedHeight, FSub(height.size, marginColumn))))

\* C20: canUseCachedMeasurement answers TRUE for an entry and a request
\* exactly when each axis is the same or valid, or the node is a text node,
\* the width is the same and the height of the request is Undefined or is
\* AtMost with the computed height of the entry strictly below the
\* available height less the margin.
C20_HitExactlyWhenUsable == probe.op = "canUseCachedMeasurement" => (probe.arg[3] <=> Usable(isTextNode[probe.node], layout[probe.node].cachedLayout, probe.arg[1], probe.arg[2], getMarginAxis(W, probe.node, "Row"), getMarginAxis(W, probe.node, "Column")))

\* The stores of the last call (lines 2261-2285).
Stores == {probe.stores[i] : i \in 1 .. Len(probe.stores)}

\* C21: the cursor of the measurement ring stays within 0 .. 16 and no
\* measure-only store writes a slot at or above 16; a measure-only store
\* that finds the ring full overwrites only the oldest slot, slot 0, and the
\* fifteen other measurements are still found by the lookup afterwards.
C21_FullRingKeepsTheOthers == \A s \in Stores : ~s.performLayout => s.after \in 0 .. CSS_MAX_CACHED_RESULT_COUNT /\ s.slot < CSS_MAX_CACHED_RESULT_COUNT /\ (s.before = CSS_MAX_CACHED_RESULT_COUNT => s.written = {0} /\ s.lost = {})

\* C22: a full-layout store writes cachedLayout only, whatever the cursor
\* of the ring, a full ring included: it changes no ring slot and leaves the
\* cursor where it was; a measure-only store leaves cachedLayout unchanged.
C22_StoresKeepApart == \A s \in Stores : (s.performLayout => s.written = {} /\ s.after = s.before) /\ (~s.performLayout => ~s.cachedLayout)

\* C23: a measure-only invocation of the kernel on a node changes the
\* position, the dimensions, hasNewLayout and isDirty of no node of its
\* subtree.
C23_MeasureOnlyKeepsLayout == [][probe'.op = "layoutNodeInternal" => \A n \in Subtree(probe'.node) : layout'[n].position = layout[n].position /\ layout'[n].dimensions = layout[n].dimensions /\ hasNewLayout'[n] = hasNewLayout[n] /\ isDirty'[n] = isDirty[n]]_vars

\* A measure-only invocation has computed a dirty parent and its child
\* again, in a tree that has been laid out, and the parent is still dirty.
C23_MeasuredAgain == probe.op = "layoutNodeInternal" /\ Alive /\ Len(probe.ran) > 1 /\ isDirty[probe.node] /\ \E c \in Subtree(probe.node) : c # probe.node /\ layout[c].position["Left"] # 0 /\ IsFinite(layout[c].dimensions["Width"])

\* The first pass over the item c of p, from the flex bases the layout left
\* (lines 1479-1527).
TotalShrinkScaled(p) == Sum([i \in 1 .. Len(InFlow(p)) |-> FMul(FNeg(style[InFlow(p)[i]].flexShrink), layout[InFlow(p)[i]].computedFlexBasis)])

NoDeltas == [deltaFreeSpace |-> 0, deltaFlexShrinkScaledFactors |-> 0, deltaFlexGrowFactors |-> 0]

Pass1(p, c) == FirstPassChild(W, [mainAxis |-> MainAxis(p)], [totalFlexShrinkScaledFactors |-> TotalShrinkScaled(p), totalFlexGrowFactors |-> TotalGrow(p)], FreeSpace(p), c, NoDeltas)

\* The first pass froze c at a minimum or a maximum, and the size it froze
\* it at.
Clamped(p, c) == Pass1(p, c) # NoDeltas

ClampedSize(p, c) == layout[c].computedFlexBasis - Pass1(p, c).deltaFreeSpace

\* p is a container of one line and of a definite main size whose items
\* have finite flex bases and factors.
Flexes(p) == LaidOut(p) /\ style[p].flexWrap = "NoWrap" /\ isStyleDimDefined(W, p, MainAxis(p)) /\ \A i \in 1 .. Len(InFlow(p)) : IsFinite(layout[InFlow(p)[i]].computedFlexBasis) /\ IsFinite(style[InFlow(p)[i]].flexGrow) /\ IsFinite(style[InFlow(p)[i]].flexShrink)

\* C24: when CalculateLayout has returned, every item that the first pass
\* froze at a minimum or a maximum has that same size on the main axis,
\* whatever the other items are.
C24_ClampedStaysClamped == Calculated => \A p \in Nodes : Flexes(p) => \A i \in 1 .. Len(InFlow(p)) : Clamped(p, InFlow(p)[i]) => layout[InFlow(p)[i]].dimensions[dim(MainAxis(p))] = ClampedSize(p, InFlow(p)[i])

\* C25: when CalculateLayout has returned, an item in the flow whose style
\* has a flex basis, under a container of a definite main size, has as its
\* computed flex basis the larger of that flex basis and of its padding and
\* border on the main axis the container has now, also when the flex
\* direction of the container has changed since the layout before.
C25_BasisOnCurrentAxis == Calculated => \A p \in Nodes : LaidOut(p) /\ isStyleDimDefined(W, p, MainAxis(p)) => \A i \in 1 .. Len(InFlow(p)) : ~CSSValueIsUndefined(style[InFlow(p)[i]].flexBasis) => layout[InFlow(p)[i]].computedFlexBasis = fmaxf(style[InFlow(p)[i]].flexBasis, getPaddingAndBorderAxis(W, InFlow(p)[i], MainAxis(p)))

\* The trailing entry of c on an axis of its parent p: as setTrailingPosition
\* leaves it, and as the initial step of setPosition left it.
Reversed(axis) == axis \in {"RowReverse", "ColumnReverse"}

FixedTrailing(p, c, axis) == layout[c].position[trailing(axis)] = layout[p].measuredDimensions[dim(axis)] - layout[c].measuredDimensions[dim(axis)] - layout[c].position[pos(axis)]

InitialTrailing(p, c, axis) == layout[c].position[trailing(axis)] = setPosition(W, c, resolveDirection(W, c, layout[p].direction)).layout[c].position[trailing(axis)]

TrailingAsClaimed(p, c, axis) == IF Reversed(axis) THEN FixedTrailing(p, c, axis) ELSE InitialTrailing(p, c, axis)

\* C26: when CalculateLayout has returned, the trailing position of a child
\* on the main axis of its parent is the one of the fix-up exactly when that
\* axis is RowReverse or ColumnReverse, and likewise on the cross axis; on an
\* axis that is not reversed it is the one the initial step set from the
\* trailing margin and the relative position.
C26_TrailingOnlyIfReversed == Calculated => \A p \in Nodes : LaidOut(p) => \A i \in 1 .. Len(children[p]) : TrailingAsClaimed(p, children[p][i], MainAxis(p)) /\ TrailingAsClaimed(p, children[p][i], CrossAxis(p))

\* The request r = <<width, height, width mode, height mode>> reaches lines
\* 2088-2092 of the lookup on the entry: the width is the same, the height
\* is restricted below the computed height of the entry, and the entry does
\* not serve the request for another reason.
TighterHeight(entry, r, marginRow, marginColumn) ==
  /\ IsSame(entry.widthMeasureMode, entry.availableWidth, r[3], r[1])
  /\ r[4] # "Undefined"
  /\ FLt(FSub(r[2], marginColumn), entry.computedHeight)
  /\ ~IsSame(entry.heightMeasureMode, entry.availableHeight, r[4], r[2])
  /\ ~IsValid(entry.heightMeasureMode, entry.computedHeight, r[4], r[2], marginColumn)

\* C27: a measure-only invocation on a text node whose cachedLayout has the
\* same width as the request and a computed height above the new height
\* restriction sets the computed height of the stored entry to the available
\* height less the column margin, and the measured height it writes is that
\* height.
C27_HitTakesNewHeight == [][(probe'.op = "layoutNodeInternal" /\ isTextNode[probe'.node] /\ TighterHeight(layout[probe'.node].cachedLayout, probe'.arg, getMarginAxis(W, probe'.node, "Row"), getMarginAxis(W, probe'.node, "Column"))) => (layout'[probe'.node].cachedLayout.computedHeight = FSub(probe'.arg[2], getMarginAxis(W, probe'.node, "Column")) /\ layout'[probe'.node].measuredDimensions["Height"] = FSub(probe'.arg[2], getMarginAxis(W, probe'.node, "Column")))]_vars

\* C28: when CalculateLayout has returned, isDirty is false on the node it
\* was called on and on every node below it, whatever the children are and
\* whatever was dirty before the call.
C28_CleanAfterCalculate == Calculated => \A n \in Subtree(probe.node) : ~isDirty[n]

\* A step of CalculateLayout that returns: the only call that starts a new
\* generation.
Calculates == probe'.op = "CalculateLayout" /\ gCurrentGenerationCount' # gCurrentGenerationCount /\ ~probe'.diverged /\ ~probe'.overflow /\ ~probe'.asserted

\* The nodes whose flag the step turns on.
NewlyFlagged == {n \in Node : hasNewLayout'[n] /\ ~hasNewLayout[n]}

\* The nodes whose kernel body ran in the call of the step.
RanNow == {probe'.ran[i].node : i \in 1 .. Len(probe'.ran)}

\* C29: CalculateLayout sets hasNewLayout only on nodes whose kernel body
\* ran in that call; so when the host has cleared the flag on every node
\* after a CalculateLayout and calls it again with the same arguments and
\* no change in between, no node, the root included, has the flag set
\* afterwards.
C29_NewLayoutOnlyWhereRan == [][Calculates => (NewlyFlagged \subseteq RanNow) /\ ((Repeated /\ \A n \in Node : ~hasNewLayout[n]) => \A n \in Node : ~hasNewLayout'[n])]_vars

\* C30: whenever the justification step divides the free space of a line
\* by the number of its items (SpaceAround) or by that number less one
\* (SpaceBetween), the divisor is not zero; a container that has only
\* absolute children and SpaceAround makes no division by zero items.
C30_DivisorNotZero == \A d \in probe.divisors : d.divisor # 0

=============================================================================
